---- MODULE Spec2Model ----
(***************************************************************************)
(* Budzee backend: wallet ledger (walletService), matchmaking              *)
(* (matchmakingService), memory-game sessions (MemoryGameService).         *)
(* Every handler is cut at its awaits: one action per run-to-completion    *)
(* segment of the Node.js event loop.  Database transactions that run      *)
(* under Serializable isolation are one atomic step.                       *)
(***************************************************************************)
EXTENDS Integers, Sequences, FiniteSets, TLC

(***************************************************************************)
(* Bounds of the model                                                     *)
(***************************************************************************)
MaxTx == 3      \* rows of the transactions table
MaxDed == 2     \* direct calls of deductGameEntry
MaxQueued == 3  \* rows of matchmaking_queues at one time
MaxGames == 2   \* games ever created
MaxJoin == 2    \* joinQueue calls in flight
MaxObj == 3     \* game-state objects alive in MemoryGameService at once
MaxEnd == 2     \* endGame calls in flight
MaxTasks == 1   \* pending setTimeout callbacks of one kind per game
MaxTimers == 2  \* armed bot deployment timers per queue key
MaxStarts == 1  \* START_MEMORY_GAME requests the clients send
MaxFaults == 1  \* ledger failures injected into a settlement
InitialLifelines == 2  \* lifelines of a player (3 in startGame)
TotalPairs == 2 \* pairs on the board (15 in createGameBoard)
MaxOrders == 1  \* deposit orders created
MaxReqs == 2    \* withdrawal requests created
MaxPay == 2     \* processDeposit and createWithdrawalRequest calls in flight
MaxUpdates == 1 \* status updates an admin makes to one withdrawal request
MaxDeploy == 1  \* deployBotIfNeeded calls in flight
MaxSkips == 1   \* matchmaking passes turned away during one cycle

Users == {"u1", "u2"}
Bots == {"bot1"}                \* the bot users createBotUser has created
GameIds == 1..MaxGames
LedgerGames == {1, 2}          \* the session ids of the direct ledger calls
NoGame == 0
Fees == {0, 5}                 \* entry fees: the free game and one paid game
PaidFee == CHOOSE f \in Fees : f # 0
OpeningBalances == {0, 5}
TxTypes == {"GAME_ENTRY", "GAME_WINNING", "REFUND", "DEPOSIT", "WITHDRAWAL"}

VARIABLES
  wallet,             \* wallets table: userId -> balance, gameBalance, withdrawableBalance
  opening,            \* gameBalance + withdrawableBalance of each wallet at the start
  txns,               \* transactions table: a set of rows, copy = n-th row with these values
  ongoingDeductions,  \* WalletService.ongoingDeductions
  ded,                \* the calls of deductGameEntry in flight, one per slot
  queue,              \* matchmaking_queues table: rows [userId, fee, st] in createdAt order
  nextGame,           \* games created so far, rolled back or not
  joins,              \* the joinMatchmaking / joinQueue calls in flight, one per slot
  mm,                 \* processMatchmaking and the createGame it is running
  botTimers,          \* MatchmakingService.botDeploymentTimers: per queue key, who armed each entry
  strays,             \* armed timeouts whose entry of botDeploymentTimers was overwritten
  deploys,            \* the deployBotIfNeeded calls in flight, one per slot
  gamesDb,            \* games table with its game_participations
  autoStart,          \* games whose 5 s auto-start timeout is pending
  starts,             \* the startGame call in flight for each game
  requests,           \* START_MEMORY_GAME requests received so far
  games,              \* MemoryGameService.games: gameId -> object reference, 0 when absent
  heap,               \* the game-state objects
  turnTimers,         \* the armed turn timeouts of each game (turnTimers holds the last)
  stTasks,            \* pending setTimeout chains of startGame (startTurnTimer at the end)
  pmTasks,            \* pending setTimeout(processMatch, 100) per game
  pmWrites,           \* updateGameState calls of processMatch on their way to the database
  ends,               \* the endGame calls in flight, one per slot
  processedWinnings,  \* MemoryGameService.processedWinnings
  faults,             \* ledger failures injected so far
  orders,             \* DEPOSIT transactions by razorpayOrderId: status and amount
  wreqs,              \* withdrawal_requests rows with their WITHDRAWAL transaction
  pay                 \* processDeposit and createWithdrawalRequest calls in flight

ledgerVars == <<wallet, opening, txns, ongoingDeductions, ded>>
matchVars == <<queue, nextGame, joins, mm, botTimers>>
startVars == <<autoStart, starts, requests, stTasks>>
playVars == <<games, heap, turnTimers, pmTasks, pmWrites>>
settleVars == <<ends, processedWinnings, faults>>
payVars == <<orders, wreqs, pay>>
fillVars == <<strays, deploys>>
vars == <<wallet, opening, txns, ongoingDeductions, ded, queue, nextGame, joins, mm,
          botTimers, gamesDb, autoStart, starts, requests, games, heap, turnTimers, stTasks, pmTasks,
          pmWrites, ends, processedWinnings, faults, orders, wreqs, pay, strays, deploys>>

(***************************************************************************)
(* Helpers on the transactions table                                       *)
(***************************************************************************)
\* COMPLETED rows of one (account, session, kind) key
TxRows(u, g, t) ==
  {r \in txns : /\ r.userId = u /\ r.gameId = g /\ r.type = t /\ r.status = "COMPLETED"}

RECURSIVE SumRows(_)
SumRows(rows) ==
  IF rows = {} THEN 0
  ELSE LET r == CHOOSE x \in rows : TRUE IN r.amount + SumRows(rows \ {r})

\* COMPLETED rows of one account and kind, over all sessions
TxOf(u, t) == {r \in txns : r.userId = u /\ r.type = t /\ r.status = "COMPLETED"}

\* tx.transaction.create: the table is a bag, a repeated row gets the next copy number
NewRow(row) ==
  [row EXCEPT !.copy = 1 + Cardinality({r \in txns : [r EXCEPT !.copy = 0] = row})]

Total(w) == w.gameBalance + w.withdrawableBalance

(***************************************************************************)
(* walletService.deductGameEntry                                           *)
(***************************************************************************)
DedIdle == [pc |-> "idle", userId |-> "none", gameId |-> NoGame, amount |-> 0,
            seen |-> 0, result |-> "none", caller |-> "none"]

DedKey(u, g) == <<u, g>>

\* findMany({userId, gameId, type: 'GAME_ENTRY', status in [COMPLETED, PENDING]})
ExistingEntry(u, g) ==
  \E r \in txns : /\ r.userId = u /\ r.gameId = g /\ r.type = "GAME_ENTRY"
                 /\ r.status \in {"COMPLETED", "PENDING"}

\* The decision inside the Serializable transaction: both re-checks read the
\* committed rows of the moment, not what the call saw before the transaction.
TxDecisionStale(existing, freshTotal, seenTotal, amount) ==
  IF existing THEN "duplicate" ELSE "success"

TxDecision(existing, freshTotal, seenTotal, amount) ==
  IF existing THEN "duplicate"
  ELSE IF freshTotal < amount THEN "insufficient"
  ELSE "success"

\* the split of a debit that takes from withdrawableBalance first
WithdrawableFirst(w, amount) ==
  IF w.withdrawableBalance >= amount THEN 0 ELSE amount - w.withdrawableBalance

\* gameBalance first, the remainder from withdrawableBalance
GameBalanceDeduction(w, amount) ==
  IF w.gameBalance >= amount THEN amount ELSE w.gameBalance

Debited(w, amount) ==
  [balance |-> w.balance - amount,
   gameBalance |-> w.gameBalance - GameBalanceDeduction(w, amount),
   withdrawableBalance |->
       w.withdrawableBalance - (amount - GameBalanceDeduction(w, amount))]

EntryRow(u, amount, g) ==
  [userId |-> u, type |-> "GAME_ENTRY", amount |-> amount, gameId |-> g,
   status |-> "COMPLETED", copy |-> 0]

\* entry of the call up to the first await
DedEnter(s, u, amount, g, caller) ==
  /\ ded[s].pc = "idle"
  /\ IF amount <= 0
       THEN \* 'Invalid amount for game entry': the outer catch deletes the key
            /\ ongoingDeductions' = ongoingDeductions \ {DedKey(u, g)}
            /\ ded' = [ded EXCEPT ![s] = [DedIdle EXCEPT !.pc = "done", !.userId = u,
                          !.gameId = g, !.amount = amount, !.result = "error",
                          !.caller = caller]]
       ELSE IF DedKey(u, g) \in ongoingDeductions
         THEN /\ ded' = [ded EXCEPT ![s] = [DedIdle EXCEPT !.pc = "done", !.userId = u,
                            !.gameId = g, !.amount = amount, !.result = "in_progress",
                            !.caller = caller]]
              /\ UNCHANGED ongoingDeductions
         ELSE /\ ongoingDeductions' = ongoingDeductions \cup {DedKey(u, g)}
              /\ ded' = [ded EXCEPT ![s] = [DedIdle EXCEPT !.pc = "find", !.userId = u,
                            !.gameId = g, !.amount = amount, !.caller = caller]]

\* after findMany of the existing entries
DedFind(s) ==
  /\ ded[s].pc = "find"
  /\ IF ExistingEntry(ded[s].userId, ded[s].gameId)
       THEN /\ ded' = [ded EXCEPT ![s].pc = "done", ![s].result = "duplicate"]
            /\ ongoingDeductions' = ongoingDeductions \ {DedKey(ded[s].userId, ded[s].gameId)}
       ELSE /\ ded' = [ded EXCEPT ![s].pc = "wallet"]
            /\ UNCHANGED ongoingDeductions
  /\ UNCHANGED <<wallet, opening, txns>>

\* after getWallet: the optimistic balance check
DedWallet(s) ==
  /\ ded[s].pc = "wallet"
  /\ LET total == Total(wallet[ded[s].userId]) IN
       IF total < ded[s].amount
         THEN /\ ded' = [ded EXCEPT ![s].pc = "done", ![s].result = "insufficient",
                                    ![s].seen = total]
              /\ ongoingDeductions' =
                     ongoingDeductions \ {DedKey(ded[s].userId, ded[s].gameId)}
         ELSE /\ ded' = [ded EXCEPT ![s].pc = "tx", ![s].seen = total]
              /\ UNCHANGED ongoingDeductions
  /\ UNCHANGED <<wallet, opening, txns>>

\* prisma.$transaction(..., {isolationLevel: 'Serializable'}) and the finally
DedTx(s) ==
  /\ ded[s].pc = "tx"
  /\ LET u == ded[s].userId
         g == ded[s].gameId
         a == ded[s].amount
         r == TxDecision(ExistingEntry(u, g), Total(wallet[u]), ded[s].seen, a)
     IN /\ ded' = [ded EXCEPT ![s].pc = "done", ![s].result = r]
        /\ ongoingDeductions' = ongoingDeductions \ {DedKey(u, g)}
        /\ IF r = "success"
             THEN /\ txns' = txns \cup {NewRow(EntryRow(u, a, g))}
                  /\ wallet' = [wallet EXCEPT ![u] = Debited(wallet[u], a)]
             ELSE UNCHANGED <<wallet, txns>>
  /\ UNCHANGED opening

(***************************************************************************)
(* walletService.creditWallet                                              *)
(***************************************************************************)
CreditRow(u, amount, t, g) ==
  [userId |-> u, type |-> t, amount |-> amount, gameId |-> g, status |-> "COMPLETED",
   copy |-> 0]

\* the types creditWallet routes to a sub-balance
GameCredits == {"DEPOSIT", "REFUND", "REFERRAL_BONUS", "REFERRAL_SIGNUP_BONUS"}
CreditKinds == {"GAME_WINNING"} \cup GameCredits

\* a credit that puts every type into gameBalance
CreditedToGame(w, amount, t) ==
  [balance |-> w.balance + amount,
   gameBalance |-> w.gameBalance + amount,
   withdrawableBalance |-> w.withdrawableBalance]

\* GAME_WINNING goes to withdrawableBalance, DEPOSIT, REFUND and the referral
\* bonuses to gameBalance; balance is incremented for every type
Credited(w, amount, t) ==
  [balance |-> w.balance + amount,
   gameBalance |-> IF t \in GameCredits THEN w.gameBalance + amount ELSE w.gameBalance,
   withdrawableBalance |->
       IF t = "GAME_WINNING" THEN w.withdrawableBalance + amount
       ELSE w.withdrawableBalance]

\* TRUE when creditWallet throws 'Invalid amount for credit'
CreditRejects(amount) == amount <= 0

\* the transaction of creditWallet: one row, one wallet update
CreditApply(u, amount, t, g) ==
  /\ ~CreditRejects(amount)
  /\ txns' = txns \cup {NewRow(CreditRow(u, amount, t, g))}
  /\ wallet' = [wallet EXCEPT ![u] = Credited(wallet[u], amount, t)]

(***************************************************************************)
(* walletService: createDepositOrder, processDeposit,                      *)
(* createWithdrawalRequest and updateWithdrawalStatus; PaymentManager:     *)
(* processDeposit and createWithdrawal                                     *)
(***************************************************************************)
MinDeposit == 10       \* createDepositOrder: 'Minimum deposit amount is 10'
MinWithdrawal == 100   \* createWithdrawalRequest: 'Minimum withdrawal amount is 100'

OrderIds == 1..MaxOrders
ReqIds == 1..MaxReqs
PaySlots == 1..MaxPay

NoOrder == [status |-> "none", amount |-> 0]
NoReq == [status |-> "none", amount |-> 0, updates |-> 0]
NoPay == [pc |-> "idle", order |-> 0, amount |-> 0]

\* the amounts the client names in POST /deposit/verify and POST /withdraw
DepositAmounts == {MinDeposit}
WithdrawalAmounts == {MinWithdrawal}

FreeOrders == {o \in OrderIds : orders[o] = NoOrder}
FreeReqs == {r \in ReqIds : wreqs[r] = NoReq}

\* createDepositOrder: the Razorpay order and its PENDING DEPOSIT transaction
DepositOrder(u, amount) ==
  /\ amount >= MinDeposit
  /\ FreeOrders # {}
  /\ orders' = [orders EXCEPT ![CHOOSE o \in FreeOrders : \A o2 \in FreeOrders : o <= o2] =
                    [status |-> "PENDING", amount |-> amount]]

\* walletService.processDeposit up to its findFirst
DepositEnter(s, o, amount) ==
  /\ pay[s].pc = "idle"
  /\ pay' = [pay EXCEPT ![s] = [pc |-> "d_find", order |-> o, amount |-> amount]]

\* findFirst({userId, razorpayOrderId, status: 'PENDING', type: 'DEPOSIT'}):
\* nothing found answers 'Transaction not found or already processed'; a
\* signature that does not verify marks the transaction FAILED
DepositFind(s, valid) ==
  LET o == pay[s].order IN
  /\ pay[s].pc = "d_find"
  /\ IF orders[o].status # "PENDING"
       THEN /\ pay' = [pay EXCEPT ![s] = NoPay]
            /\ UNCHANGED orders
       ELSE IF ~valid
         THEN /\ pay' = [pay EXCEPT ![s] = NoPay]
              /\ orders' = [orders EXCEPT ![o].status = "FAILED"]
         ELSE /\ pay' = [pay EXCEPT ![s].pc = "d_tx"]
              /\ UNCHANGED orders

\* deposits go to gameBalance
Deposited(w, amount) ==
  [balance |-> w.balance + amount, gameBalance |-> w.gameBalance + amount,
   withdrawableBalance |-> w.withdrawableBalance]

\* the transaction of processDeposit: the row found is set COMPLETED by its
\* id, the wallet is incremented by the amount of the request
DepositTx(s, u) ==
  /\ pay[s].pc = "d_tx"
  /\ orders' = [orders EXCEPT ![pay[s].order].status = "COMPLETED"]
  /\ wallet' = [wallet EXCEPT ![u] = Deposited(wallet[u], pay[s].amount)]
  /\ pay' = [pay EXCEPT ![s] = NoPay]

\* createWithdrawalRequest up to getWallet (the amount and the details are valid)
WithdrawEnter(s, amount) ==
  /\ pay[s].pc = "idle"
  /\ amount >= MinWithdrawal
  /\ pay' = [pay EXCEPT ![s] = [pc |-> "w_wallet", order |-> 0, amount |-> amount]]

\* the check of the withdrawable balance on the wallet getWallet returned
WithdrawCheck(s, u) ==
  /\ pay[s].pc = "w_wallet"
  /\ pay' = [pay EXCEPT ![s] = IF wallet[u].withdrawableBalance < pay[s].amount
                                THEN NoPay ELSE [pay[s] EXCEPT !.pc = "w_tx"]]

\* balance and withdrawableBalance are decremented
Withdrawn(w, amount) ==
  [balance |-> w.balance - amount, gameBalance |-> w.gameBalance,
   withdrawableBalance |-> w.withdrawableBalance - amount]

\* the transaction of createWithdrawalRequest: the request and its WITHDRAWAL
\* transaction are created PENDING, the wallet is decremented
WithdrawTx(s, u) ==
  /\ pay[s].pc = "w_tx"
  /\ FreeReqs # {}
  /\ wreqs' = [wreqs EXCEPT ![CHOOSE r \in FreeReqs : \A r2 \in FreeReqs : r <= r2] =
                   [status |-> "PENDING", amount |-> pay[s].amount, updates |-> 0]]
  /\ wallet' = [wallet EXCEPT ![u] = Withdrawn(wallet[u], pay[s].amount)]
  /\ pay' = [pay EXCEPT ![s] = NoPay]

\* the refund of a REJECTED or CANCELLED request
Reinstated(w, amount) ==
  [balance |-> w.balance + amount, gameBalance |-> w.gameBalance,
   withdrawableBalance |-> w.withdrawableBalance + amount]

\* the values of the enum TransactionStatus, the type of transactions.status
TransactionStatuses == {"PENDING", "COMPLETED", "FAILED", "CANCELLED"}

\* updateWithdrawalStatus: in one transaction the request takes the status, its
\* WITHDRAWAL transaction takes the same status, and REJECTED and CANCELLED
\* give the amount back.  A status that transactions.status does not admit
\* (REJECTED) makes the updateMany throw: the transaction rolls back, the
\* request keeps its status and nothing is given back
WithdrawalStatus(r, u, status) ==
  /\ wreqs[r].status # "none"
  /\ wreqs[r].updates < MaxUpdates
  /\ IF status \in TransactionStatuses
       THEN /\ wreqs' = [wreqs EXCEPT ![r].status = status, ![r].updates = @ + 1]
            /\ wallet' = [wallet EXCEPT ![u] =
                  IF status \in {"REJECTED", "CANCELLED"}
                    THEN Reinstated(wallet[u], wreqs[r].amount)
                    ELSE wallet[u]]
       ELSE /\ wreqs' = [wreqs EXCEPT ![r].updates = @ + 1]
            /\ wallet' = wallet

\* PaymentManager.processDeposit: the transaction finds the PENDING row, sets
\* it COMPLETED and increments balance alone
PMDeposit(o, u, amount) ==
  /\ orders[o].status = "PENDING"
  /\ orders' = [orders EXCEPT ![o].status = "COMPLETED"]
  /\ wallet' = [wallet EXCEPT ![u].balance = @ + amount]

WithdrawalRow(u, amount) ==
  [userId |-> u, type |-> "WITHDRAWAL", amount |-> amount, gameId |-> NoGame,
   status |-> "PENDING", copy |-> 0]

\* PaymentManager.createWithdrawal: the transaction checks balance, creates the
\* PENDING WITHDRAWAL transaction and decrements balance alone
PMWithdraw(u, amount) ==
  /\ amount >= MinWithdrawal
  /\ wallet[u].balance >= amount
  /\ txns' = txns \cup {NewRow(WithdrawalRow(u, amount))}
  /\ wallet' = [wallet EXCEPT ![u].balance = @ - amount]

(***************************************************************************)
(* matchmakingService.joinQueue, behind the joinMatchmaking socket handler *)
(* ("socket") or the POST /join route ("http")                             *)
(***************************************************************************)
PartySize == 2     \* joinMatchmaking admits maxPlayers = 2 only

JoinSlots == 1..MaxJoin

JoinIdle == [pc |-> "idle", userId |-> "none", fee |-> 0, had |-> FALSE]

\* positions of the rows of a user, of a queue key
RowsOf(u) == {i \in DOMAIN queue : queue[i].userId = u}
RowsOfKey(fee) == {i \in DOMAIN queue : queue[i].fee = fee}

\* rows deleted by the createGame transaction that has not committed yet: other
\* sessions still read them (READ COMMITTED) and their deletes wait for the lock
Locked(i) == queue[i].st = "locked"

\* the rows at the positions in keep, in their order
RECURSIVE Kept(_, _)
Kept(sq, keep) ==
  IF sq = <<>> THEN <<>>
  ELSE LET rest == Kept(SubSeq(sq, 1, Len(sq) - 1), keep)
       IN IF Len(sq) \in keep THEN Append(rest, sq[Len(sq)]) ELSE rest

\* deleteMany({userId})
WithoutUser(u) == Kept(queue, DOMAIN queue \ RowsOf(u))

\* joinQueue's first await: the balance check is skipped for the free game
JoinFirst(fee) == IF fee > 0 THEN "balance" ELSE "existing"

\* what a call answers when it ends at this point of the handler
JoinAnswer(pc) ==
  IF pc = "precheck" THEN "status_already"
  ELSE IF pc = "balance" THEN "insufficient"
  ELSE IF pc = "existing" THEN "already_success"
  ELSE "joined"

\* the request arrives; the socket handler first looks for any row of the user
JoinEnter(s, u, fee, via) ==
  /\ joins[s].pc = "idle"
  /\ joins' = [joins EXCEPT ![s] =
        [pc |-> IF via = "socket" THEN "precheck" ELSE JoinFirst(fee),
         userId |-> u, fee |-> fee, had |-> RowsOf(u) # {}]]

\* joinMatchmaking: findFirst({userId}); a row found is answered with
\* matchmakingStatus 'Already in matchmaking queue', joinQueue is not called
JoinPrecheck(s) ==
  /\ joins[s].pc = "precheck"
  /\ IF RowsOf(joins[s].userId) # {}
       THEN joins' = [joins EXCEPT ![s] = JoinIdle]
       ELSE joins' = [joins EXCEPT ![s].pc = JoinFirst(joins[s].fee)]

\* getWalletBalance: throws 'Insufficient balance' when the total is below the fee
JoinBalance(s) ==
  /\ joins[s].pc = "balance"
  /\ IF Total(wallet[joins[s].userId]) < joins[s].fee
       THEN joins' = [joins EXCEPT ![s] = JoinIdle]
       ELSE joins' = [joins EXCEPT ![s].pc = "existing"]

\* findFirst({userId, gameType, maxPlayers, entryFee}): a row found returns
\* {success: true, message: 'Already in matchmaking queue for this game'}
JoinExisting(s) ==
  /\ joins[s].pc = "existing"
  /\ IF \E i \in RowsOf(joins[s].userId) : queue[i].fee = joins[s].fee
       THEN joins' = [joins EXCEPT ![s] = JoinIdle]
       ELSE joins' = [joins EXCEPT ![s].pc = "others"]

\* findMany({userId}): rows under another key are to be removed first
JoinOthers(s) ==
  /\ joins[s].pc = "others"
  /\ joins' = [joins EXCEPT ![s].pc =
        IF RowsOf(joins[s].userId) # {} THEN "delete" ELSE "create"]

\* deleteMany({userId})
JoinDelete(s) ==
  /\ joins[s].pc = "delete"
  /\ \A i \in RowsOf(joins[s].userId) : ~Locked(i)
  /\ queue' = WithoutUser(joins[s].userId)
  /\ joins' = [joins EXCEPT ![s].pc = "create"]

\* all but the last entry
Front(sq) == SubSeq(sq, 1, Len(sq) - 1)

\* startBotDeploymentTimer: setTimeout(deployBotIfNeeded, 30000), kept in the map
\* under `${queueKey}_${Date.now()}`.  No timer of the key is looked for or
\* cleared.  sameMs: Date.now() is what it was when the last entry of the key
\* was set, so that set() replaces the handle of that entry, whose timeout
\* stays armed and is out of the reach of clearBotDeploymentTimer
TimerStarted(timers, u, sameMs) ==
  IF sameMs THEN Append(Front(timers), u) ELSE Append(timers, u)

Overwritten(fee, sameMs) ==
  IF sameMs THEN {[fee |-> fee, owner |-> botTimers[fee][Len(botTimers[fee])]]} ELSE {}

\* the timeouts armed for a key: the entries of the map and the overwritten ones
ArmedTimers(fee) == Len(botTimers[fee]) + Cardinality({t \in strays : t.fee = fee})

\* matchmakingQueue.create, then startBotDeploymentTimer: one more timer for the key
JoinCreate(s, sameMs) ==
  /\ joins[s].pc = "create"
  /\ Len(queue) < MaxQueued
  /\ ArmedTimers(joins[s].fee) < MaxTimers
  /\ sameMs => botTimers[joins[s].fee] # <<>>
  /\ queue' = Append(queue, [userId |-> joins[s].userId, fee |-> joins[s].fee,
                             st |-> "free"])
  /\ botTimers' = [botTimers EXCEPT ![joins[s].fee] =
                      TimerStarted(@, joins[s].userId, sameMs)]
  /\ strays' = strays \cup Overwritten(joins[s].fee, sameMs)
  /\ joins' = [joins EXCEPT ![s] = JoinIdle]

\* a call in flight of a user whose rows have just gone no longer is a second join
Forgotten(js, users) ==
  [s \in DOMAIN js |-> IF js[s].userId \in users THEN [js[s] EXCEPT !.had = FALSE]
                       ELSE js[s]]

\* matchmakingService.leaveQueue: deleteMany({userId})
LeaveRows(u) ==
  /\ \A i \in RowsOf(u) : ~Locked(i)
  /\ queue' = WithoutUser(u)
  /\ joins' = Forgotten(joins, {u})

(***************************************************************************)
(* matchmakingService.processMatchmaking and createGame                    *)
(***************************************************************************)
NoCg == [fee |-> 0, players |-> <<>>, game |-> NoGame, i |-> 0]
MmIdle == [busy |-> FALSE, pc |-> "idle", groups |-> <<>>, created |-> 0, cg |-> NoCg,
           skips |-> 0]

\* prize pool: 80% of the entry fees (the fees of the model keep it integral)
PrizePool(fee, n) == (fee * n * 8) \div 10

\* groupBy(gameType, maxPlayers, entryFee) having count >= 2, by count descending
GroupCount(fee) == Cardinality(RowsOfKey(fee))
MatchableKeys == {fee \in Fees : GroupCount(fee) >= 2}

GroupOrders ==
  {o \in [1..Cardinality(MatchableKeys) -> MatchableKeys] :
      /\ \A i, j \in DOMAIN o : i # j => o[i] # o[j]
      /\ \A i, j \in DOMAIN o : i < j => GroupCount(o[i]) >= GroupCount(o[j])}

\* a pass that begins whether or not a cycle is running
AdmittedAlways(busy) == TRUE

\* the cycle starts unless one is running; the groups are what groupBy returns
\* (a cycle that finds no group does nothing and is left out)
\* the test of isProcessingMatchmaking at the head of processMatchmaking
Admitted(busy) == ~busy

PMStart ==
  /\ Admitted(mm.busy)
  /\ MatchableKeys # {}
  /\ \E o \in GroupOrders :
       mm' = [mm EXCEPT !.busy = TRUE, !.pc = "loop", !.created = 0,
                 !.groups = [i \in DOMAIN o |->
                     [fee |-> o[i], left |-> GroupCount(o[i]) \div PartySize]]]

\* a pass invoked while a cycle is running (by the interval, by the re-run a
\* cycle that created games schedules, by the re-run after a bot deployment)
\* logs 'already in progress' and returns
PMSkip ==
  /\ ~Admitted(mm.busy)
  /\ mm.skips < MaxSkips
  /\ mm' = [mm EXCEPT !.skips = @ + 1]

\* the cycle ends: isProcessingMatchmaking is reset in the finally
PMFinish ==
  /\ mm.pc = "loop"
  /\ mm.groups = <<>>
  /\ mm' = MmIdle

\* findMany(distinct userId, orderBy createdAt asc, take playersToMatch): the
\* oldest row of each user, the first playersToMatch of them
OldestPerUser(fee) ==
  {i \in RowsOfKey(fee) : \A j \in RowsOfKey(fee) : queue[j].userId = queue[i].userId => i <= j}

FoundRows(fee) ==
  {i \in OldestPerUser(fee) : Cardinality({j \in OldestPerUser(fee) : j < i}) < PartySize}

Marked(q, rows, st) == [i \in DOMAIN q |-> IF i \in rows THEN [q[i] EXCEPT !.st = st] ELSE q[i]]

Players(q, rows) == [k \in 1..Cardinality(rows) |->
                       q[CHOOSE i \in rows : Cardinality({j \in rows : j < i}) = k - 1].userId]

\* createGame begins for the head group: the transaction reads the rows and
\* creates the game; fewer rows than players returns null and the batch stops
CGFind ==
  /\ mm.pc = "loop"
  /\ mm.groups # <<>>
  /\ LET grp == Head(mm.groups)
         found == FoundRows(grp.fee)
     IN IF grp.left = 0 \/ Cardinality(found) < PartySize
          THEN /\ mm' = [mm EXCEPT !.groups = Tail(mm.groups)]
               /\ UNCHANGED <<queue, nextGame>>
          ELSE /\ nextGame < MaxGames
               /\ nextGame' = nextGame + 1
               /\ queue' = Marked(queue, found, "found")
               /\ mm' = [mm EXCEPT !.pc = "cg_delete",
                            !.cg = [fee |-> grp.fee, players |-> Players(queue, found),
                                    game |-> nextGame + 1, i |-> 1]]

\* tx.matchmakingQueue.deleteMany({id in queueIds}): the rows still there are
\* deleted, the count is not looked at
CGDelete ==
  /\ mm.pc = "cg_delete"
  /\ queue' = Marked(queue, {i \in DOMAIN queue : queue[i].st = "found"}, "locked")
  /\ mm' = [mm EXCEPT !.pc = "cg_part"]

CgSlot == 0     \* the deduct slot of createGame's call

\* the loop over the matched rows: a paid game calls deductGameEntry (on the
\* global client, outside the transaction), a free game only creates the
\* participations
CGPart ==
  /\ mm.pc = "cg_part"
  /\ IF mm.cg.fee > 0
       THEN /\ DedEnter(CgSlot, mm.cg.players[mm.cg.i], mm.cg.fee, mm.cg.game,
                        "createGame")
            /\ mm' = [mm EXCEPT !.pc = "cg_wait"]
            /\ UNCHANGED <<wallet, opening, txns>>
       ELSE /\ mm' = [mm EXCEPT !.pc = "cg_commit"]
            /\ UNCHANGED ledgerVars

\* what createGame makes of deductGameEntry's answer
DeductionOk(result) == result = "success"

\* the loop over the matched rows ends after the last of them
LastPlayerEarly(i) == i >= 1

LastPlayer(i) == i = PartySize

\* deductGameEntry has returned: success creates the participation, anything
\* else throws, the transaction rolls back and the batch of this group stops
CGAfterDeduct ==
  /\ mm.pc = "cg_wait"
  /\ ded[CgSlot].pc = "done"
  /\ ded' = [ded EXCEPT ![CgSlot] = DedIdle]
  /\ IF DeductionOk(ded[CgSlot].result)
       THEN /\ mm' = [mm EXCEPT !.pc = IF LastPlayer(mm.cg.i) THEN "cg_commit"
                                       ELSE "cg_part",
                            !.cg.i = mm.cg.i + 1]
            /\ UNCHANGED queue
       ELSE /\ mm' = [mm EXCEPT !.pc = "loop", !.cg = NoCg, !.groups = Tail(mm.groups)]
            /\ queue' = Marked(queue, DOMAIN queue, "free")

GameRow(fee, players) ==
  [status |-> "WAITING", fee |-> fee, prizePool |-> PrizePool(fee, PartySize),
   participants |-> players, winner |-> "none"]

NoGameRow ==
  [status |-> "none", fee |-> 0, prizePool |-> 0, participants |-> <<>>,
   winner |-> "none"]

\* the games createGame has committed
FormedGames == {g \in GameIds : gamesDb[g].status # "none"}

\* the transaction commits: the game and its participations appear, the rows
\* leave the queue; then clearBotDeploymentTimer and the callback, which
\* schedules the auto-start
CGCommit ==
  /\ mm.pc = "cg_commit"
  /\ gamesDb' = [gamesDb EXCEPT ![mm.cg.game] = GameRow(mm.cg.fee, mm.cg.players)]
  /\ queue' = Marked(Kept(queue, {i \in DOMAIN queue : ~Locked(i)}), DOMAIN queue, "free")
  /\ joins' = Forgotten(joins, {queue[i].userId : i \in {j \in DOMAIN queue : Locked(j)}})
  /\ botTimers' = [botTimers EXCEPT ![mm.cg.fee] = <<>>]
  /\ autoStart' = autoStart \cup {mm.cg.game}
  /\ mm' = [mm EXCEPT !.pc = "loop", !.cg = NoCg, !.created = mm.created + 1,
               !.groups = <<[fee |-> Head(mm.groups).fee,
                             left |-> Head(mm.groups).left - 1]>> \o Tail(mm.groups)]

(***************************************************************************)
(* The bot deployment timers: deployBotIfNeeded and                        *)
(* botService.getBotForMatchmaking.  An entry of botDeploymentTimers whose *)
(* timeout has fired stays in the map until the callback ends; it can only *)
(* be deleted, so the model drops it when the timeout fires.               *)
(***************************************************************************)
DeploySlots == 1..MaxDeploy
DeployIdle == [pc |-> "idle", fee |-> 0, bot |-> "none"]

\* a timeout of the key fires, 30 s after it was armed: the oldest entry of the
\* map or an overwritten one
TimerFire(d, fee) ==
  /\ deploys[d].pc = "idle"
  /\ \/ /\ botTimers[fee] # <<>>
        /\ botTimers' = [botTimers EXCEPT ![fee] = Tail(@)]
        /\ UNCHANGED strays
     \/ /\ \E t \in strays : t.fee = fee /\ strays' = strays \ {t}
        /\ UNCHANGED botTimers
  /\ deploys' = [deploys EXCEPT ![d] = [DeployIdle EXCEPT !.pc = "count", !.fee = fee]]

\* count({gameType, maxPlayers, entryFee}): a bot is wanted when rows wait and
\* are fewer than a game takes
BotWanted(queueCount) == queueCount > 0 /\ queueCount < PartySize

DeployCount(d) ==
  /\ deploys[d].pc = "count"
  /\ deploys' = [deploys EXCEPT ![d] =
        IF BotWanted(GroupCount(deploys[d].fee)) THEN [@ EXCEPT !.pc = "humans"]
        ELSE DeployIdle]

\* count({..., user: {isBot: false}}): no bot joins a queue of bots only
HumanRows(fee) == {i \in RowsOfKey(fee) : queue[i].userId \notin Bots}

DeployHumans(d) ==
  /\ deploys[d].pc = "humans"
  /\ deploys' = [deploys EXCEPT ![d] =
        IF HumanRows(deploys[d].fee) # {} THEN [@ EXCEPT !.pc = "find"]
        ELSE DeployIdle]

\* a bot with no queue row and no participation in a WAITING or PLAYING game
AvailableBots ==
  {b \in Bots : /\ RowsOf(b) = {}
                /\ \A g \in GameIds :
                      gamesDb[g].status \in {"WAITING", "PLAYING"}
                         => \A k \in DOMAIN gamesDb[g].participants :
                               gamesDb[g].participants[k] # b}

\* getBotForMatchmaking: user.findFirst, or createBotUser when none is found (the
\* bots of the model are those ever created; of a free game the wallet of the
\* bot is not topped up)
DeployFind(d) ==
  /\ deploys[d].pc = "find"
  /\ deploys[d].fee = 0
  /\ \E b \in AvailableBots :
       deploys' = [deploys EXCEPT ![d].pc = "enqueue", ![d].bot = b]

\* matchmakingQueue.create for the bot; deployBotIfNeeded then schedules a pass
\* of processMatchmaking in 1 s
DeployEnqueue(d) ==
  /\ deploys[d].pc = "enqueue"
  /\ Len(queue) < MaxQueued
  /\ queue' = Append(queue, [userId |-> deploys[d].bot, fee |-> deploys[d].fee,
                             st |-> "free"])
  /\ deploys' = [deploys EXCEPT ![d] = DeployIdle]

FillIdle ==
  /\ strays = {}
  /\ deploys = [d \in DeploySlots |-> DeployIdle]

(***************************************************************************)
(* MemoryGameService: the game-state objects                               *)
(***************************************************************************)
NoRef == 0
Refs == 1..MaxObj
NoObj == [status |-> "free"]

Positions == 0..(2 * TotalPairs - 1)

\* createGameBoard: symbol i on cards 2i and 2i+1, then a shuffle seeded by the
\* room id; the shuffle of the model deals the pairs at distance TotalPairs
Symbol(g, p) == p % TotalPairs

Range(f) == {f[x] : x \in DOMAIN f}
SeqSet(sq) == {sq[i] : i \in DOMAIN sq}

\* players.filter(p => p.id !== playerId)
RECURSIVE Without(_, _)
Without(sq, u) ==
  IF sq = <<>> THEN <<>>
  ELSE IF Head(sq) = u THEN Without(Tail(sq), u)
       ELSE <<Head(sq)>> \o Without(Tail(sq), u)

\* delete obj[key]
Dropped(f, u) == [x \in DOMAIN f \ {u} |-> f[x]]

\* a gameState that gives the first turn to the last seat
LastSeatState(g, players) ==
  [room |-> g, players |-> players, currentTurnIndex |-> Len(players) - 1,
   currentTurnPlayerId |-> players[Len(players)], selectedCards |-> <<>>,
   flipped |-> {}, matched |-> {},
   scores |-> [u \in {players[i] : i \in DOMAIN players} |-> 0],
   lifelines |-> [u \in {players[i] : i \in DOMAIN players} |-> InitialLifelines],
   matchedPairs |-> 0, status |-> "playing", processingCards |-> FALSE]

\* the gameState of startGame; currentTurnIndex counts from 0 as in the code
NewGameState(g, players) ==
  [room |-> g, players |-> players, currentTurnIndex |-> 0,
   currentTurnPlayerId |-> players[1], selectedCards |-> <<>>,
   flipped |-> {}, matched |-> {},
   scores |-> [u \in SeqSet(players) |-> 0],
   lifelines |-> [u \in SeqSet(players) |-> InitialLifelines],
   matchedPairs |-> 0, status |-> "playing", processingCards |-> FALSE]

FreeRefs == {o \in Refs : heap[o] = NoObj}
NewRef == CHOOSE o \in FreeRefs : \A o2 \in FreeRefs : o <= o2

\* objects nothing refers to any more are collected
Swept(h, gm, en) ==
  [o \in Refs |-> IF o \in Range(gm) \/ \E s \in DOMAIN en : en[s].obj = o
                  THEN h[o] ELSE NoObj]

(***************************************************************************)
(* The auto-start of the game-created callback and startGame               *)
(***************************************************************************)
\* the 5 s timeout fires: getGameById is awaited
AutoStartFire(g) ==
  /\ g \in autoStart
  /\ starts[g] = "idle"
  /\ autoStart' = autoStart \ {g}
  /\ starts' = [starts EXCEPT ![g] = "check"]

\* gameFromDb?.status === 'WAITING' starts the game, anything else only logs
AutoStartCheck(g) ==
  /\ starts[g] = "check"
  /\ starts' = [starts EXCEPT ![g] =
        IF gamesDb[g].status = "WAITING" THEN "get" ELSE "idle"]

\* START_MEMORY_GAME from a client: startGame({roomId}) up to its getGameById
StartRequest(g) ==
  /\ starts[g] = "idle"
  /\ requests < MaxStarts
  /\ requests' = requests + 1
  /\ starts' = [starts EXCEPT ![g] = "get"]

\* what startGame makes of the row: it asks for two participants, not for a status
StartRefuses(row) == row.status = "none" \/ Len(row.participants) < 2

\* getGameById has answered: the new gameState replaces whatever games holds
StartCreate(g) ==
  /\ starts[g] = "get"
  /\ IF StartRefuses(gamesDb[g])
       THEN /\ starts' = [starts EXCEPT ![g] = "idle"]
            /\ UNCHANGED <<games, heap>>
       ELSE /\ FreeRefs # {}
            /\ starts' = [starts EXCEPT ![g] = "db"]
            /\ games' = [games EXCEPT ![g] = NewRef]
            /\ heap' = Swept([heap EXCEPT ![NewRef] =
                                NewGameState(g, gamesDb[g].participants)],
                             games', ends)

\* updateGameState(roomId, initialBoard, 0, 'PLAYING', null), then the
\* setTimeout chain that ends in startTurnTimer is scheduled
StartUpdate(g) ==
  /\ starts[g] = "db"
  /\ stTasks[g] < MaxTasks
  /\ gamesDb' = [gamesDb EXCEPT ![g].status = "PLAYING", ![g].winner = "none"]
  /\ stTasks' = [stTasks EXCEPT ![g] = @ + 1]
  /\ starts' = [starts EXCEPT ![g] = "idle"]

\* clearTurnTimer: clearTimeout of the handle in turnTimers, which is deleted
TimerCleared(timers, g) == [timers EXCEPT ![g] = 0]

\* the timeout that fires is armed no longer
TimerFired(timers, g) == [timers EXCEPT ![g] = @ - 1]

\* a timer armed on top of the one that is running
TimerAdded(timers, g) ==
  IF games[g] # NoRef THEN [timers EXCEPT ![g] = @ + 1] ELSE timers

\* startTurnTimer: the previous timer of the game is cleared, a new one is armed
\* when the game is in the map
TimerRestarted(timers, g) ==
  IF games[g] # NoRef THEN [TimerCleared(timers, g) EXCEPT ![g] = @ + 1]
  ELSE TimerCleared(timers, g)

\* the end of startGame's setTimeout chain
StartTimerTask(g) ==
  /\ stTasks[g] > 0
  /\ stTasks' = [stTasks EXCEPT ![g] = @ - 1]
  /\ turnTimers' = TimerRestarted(turnTimers, g)

(***************************************************************************)
(* MemoryGameService: turns, exits and endGame                             *)
(***************************************************************************)
NaN == -1     \* currentTurnIndex after (index + 1) % 0

\* players.filter, delete scores[playerId], delete lifelines[playerId]
Removed(obj, u) ==
  [obj EXCEPT !.players = Without(obj.players, u),
              !.scores = Dropped(obj.scores, u),
              !.lifelines = Dropped(obj.lifelines, u)]

\* nextTurn throws on players[NaN].id when nobody is left or the index is NaN
NextTurnThrows(obj) == obj.players = <<>> \/ obj.currentTurnIndex = NaN

\* nextTurn: the statement before the throw has assigned the index
NextTurned(obj) ==
  IF NextTurnThrows(obj) THEN [obj EXCEPT !.currentTurnIndex = NaN]
  ELSE LET idx == (obj.currentTurnIndex + 1) % Len(obj.players)
       IN [obj EXCEPT !.currentTurnIndex = idx,
                      !.currentTurnPlayerId = obj.players[idx + 1],
                      !.selectedCards = <<>>,
                      !.processingCards = FALSE]

Score(obj, u) == IF u \in DOMAIN obj.scores THEN obj.scores[u] ELSE 0

\* the leaderboard with a tie going to the later seat
LastTopScorer(obj) ==
  obj.players[CHOOSE k \in DOMAIN obj.players :
                 \A j \in DOMAIN obj.players :
                    \/ Score(obj, obj.players[j]) < Score(obj, obj.players[k])
                    \/ (Score(obj, obj.players[j]) = Score(obj, obj.players[k]) /\ j <= k)]

\* leaderboard[0]: the sort by score descending is stable
TopScorer(obj) ==
  obj.players[CHOOSE k \in DOMAIN obj.players :
                 \A j \in DOMAIN obj.players :
                    \/ Score(obj, obj.players[j]) < Score(obj, obj.players[k])
                    \/ (Score(obj, obj.players[j]) = Score(obj, obj.players[k]) /\ k <= j)]

\* the winner endGame determines from the game state and the end reason
WinnerOf(obj, reason) ==
  IF obj.players = <<>> \/ reason = "network_issue" THEN "none"
  ELSE IF reason \in {"opponent_eliminated", "opponent_quit"} THEN obj.players[1]
  ELSE TopScorer(obj)

EndSlots == 1..MaxEnd
EndIdle == [pc |-> "idle", game |-> NoGame, obj |-> NoRef, reason |-> "none",
            winnerId |-> "none", turn |-> 0, caller |-> "none", i |-> 0,
            result |-> "none"]

FreeEnd == CHOOSE s \in EndSlots : ends[s].pc = "idle" /\ \A s2 \in 1..(s - 1) : ends[s2].pc # "idle"

\* endGame of a game that is in the map, up to its first await: the caller
\* clears the turn timer, getGameById is awaited
EndEntered(g, reason, caller) ==
  [ends EXCEPT ![FreeEnd] = [EndIdle EXCEPT !.pc = "get", !.game = g, !.obj = games[g],
                                            !.reason = reason, !.caller = caller]]

\* handlePlayerExit, called by handlePlayerLeave ("left") and by
\* handlePlayerDisconnect ("disconnected")
PlayerExit(g, u, reason) ==
  LET o == games[g] IN
  /\ o # NoRef
  /\ heap[o].status = "playing"
  /\ u \in SeqSet(heap[o].players)
  /\ \E s \in EndSlots : ends[s].pc = "idle"
  /\ IF Len(heap[o].players) = 2
       THEN /\ turnTimers' = TimerCleared(turnTimers, g)
            /\ IF reason = "disconnected"
                 THEN /\ ends' = EndEntered(g, "network_issue", "exit")
                      /\ UNCHANGED <<heap, games>>
                 ELSE /\ ends' = EndEntered(g, "opponent_quit", "exit")
                      /\ heap' = [heap EXCEPT ![o] = Removed(heap[o], u)]
                      /\ UNCHANGED games
       ELSE LET left == Removed(heap[o], u)
                turned == IF heap[o].currentTurnPlayerId = u THEN NextTurned(left) ELSE left
                thrown == heap[o].currentTurnPlayerId = u /\ NextTurnThrows(left)
            IN IF thrown
                 THEN \* the catch of handlePlayerExit logs the TypeError
                      /\ heap' = [heap EXCEPT ![o] = turned]
                      /\ turnTimers' = TimerCleared(turnTimers, g)
                      /\ UNCHANGED <<games, ends>>
                 ELSE IF Len(left.players) = 1
                   THEN /\ heap' = [heap EXCEPT ![o] = turned]
                        /\ turnTimers' = TimerCleared(turnTimers, g)
                        /\ ends' = EndEntered(g, "opponent_quit", "exit")
                        /\ UNCHANGED games
                   ELSE /\ turnTimers' = IF heap[o].currentTurnPlayerId = u
                                         THEN TimerRestarted(turnTimers, g)
                                         ELSE TimerCleared(turnTimers, g)
                        /\ games' = IF left.players = <<>> THEN [games EXCEPT ![g] = NoRef]
                                    ELSE games
                        /\ heap' = Swept([heap EXCEPT ![o] = turned], games', ends)
                        /\ UNCHANGED ends

\* endGame after getGameById: the winner is computed from the game state as it
\* is now, then updateGameState(..., 'FINISHED', winnerId) is awaited
EndGet(s) ==
  /\ ends[s].pc = "get"
  /\ ends' = [ends EXCEPT ![s].pc = "update",
                          ![s].winnerId = WinnerOf(heap[ends[s].obj], ends[s].reason),
                          ![s].turn = heap[ends[s].obj].currentTurnIndex]

\* the update of the games row
EndUpdate(s) ==
  /\ ends[s].pc = "update"
  /\ gamesDb' = [gamesDb EXCEPT ![ends[s].game].status = "FINISHED",
                                ![ends[s].game].winner = ends[s].winnerId]
  /\ ends' = [ends EXCEPT ![s].pc = "updated", ![s].turn = 0]

\* a currentTurn of NaN may be refused by the database client: the catch of
\* endGame logs the error and endGame returns, the game stays in the map
EndUpdateRefused(s) ==
  /\ ends[s].pc = "update"
  /\ ends[s].turn = NaN
  /\ ends' = [ends EXCEPT ![s] = IF ends[s].caller = "exit"
                                 THEN [EndIdle EXCEPT !.pc = "return",
                                                      !.game = ends[s].game,
                                                      !.obj = ends[s].obj]
                                 ELSE EndIdle]

\* endGame calls safeProcessWinnings for network_issue and for a winner
SettleCalled(reason, winnerId) == reason = "network_issue" \/ winnerId # "none"

\* MEMORY_GAME_ENDED is emitted, then safeProcessWinnings up to its first await:
\* a game in processedWinnings is skipped, otherwise it is added
EndSettle(s) ==
  /\ ends[s].pc = "updated"
  /\ IF ~SettleCalled(ends[s].reason, ends[s].winnerId)
       THEN /\ ends' = [ends EXCEPT ![s].pc = "cleanup", ![s].result = "not_called"]
            /\ UNCHANGED processedWinnings
       ELSE IF ends[s].game \in processedWinnings
         THEN /\ ends' = [ends EXCEPT ![s].pc = "cleanup",
                                      ![s].result = "already_processed"]
              /\ UNCHANGED processedWinnings
         ELSE /\ ends' = [ends EXCEPT ![s].pc = "spw_find"]
              /\ processedWinnings' = processedWinnings \cup {ends[s].game}

(***************************************************************************)
(* MemoryGameService: selectCard, processMatch and the turn timer          *)
(***************************************************************************)
BoardLength == 2 * TotalPairs

\* the turn check, mistaken: only made once a card of the turn is open
NotCurrentAfterFirst(obj, u) == obj.currentTurnPlayerId # u /\ obj.selectedCards # <<>>

\* gameState.currentTurnPlayerId !== playerId
NotCurrent(obj, u) == obj.currentTurnPlayerId # u

\* the checks of selectCard in the order of the code; the answer is the message
\* of MEMORY_GAME_ERROR, or the event MEMORY_CARD_OPENED
SelectCardReply(g, u, position) ==
  IF games[g] = NoRef THEN "Game not found."
  ELSE LET obj == heap[games[g]] IN
    IF obj.status # "playing" THEN "Game is not active."
    ELSE IF NotCurrent(obj, u) THEN "Not your turn."
    ELSE IF obj.processingCards THEN "Please wait, cards are being processed."
    ELSE IF position >= BoardLength THEN "Invalid card position."
    ELSE IF position \in obj.flipped \cup obj.matched
      THEN "Card already revealed or matched."
    ELSE IF Len(obj.selectedCards) >= 2 THEN "Maximum 2 cards per turn."
    ELSE IF position \in SeqSet(obj.selectedCards) THEN "Card already selected this turn."
    ELSE "MEMORY_CARD_OPENED"

\* the processing flag, mistaken: reset after the second card as after the first
UnlockedAfter(n) == FALSE

\* processingCards after the n-th card of the turn: set for every card, reset
\* again unless two cards are selected
LockedAfter(n) == n = 2

\* SELECT_MEMORY_CARD: playerId is data.playerId, or the socket's user
SelectCard(g, u, position) ==
  LET o == games[g]
      reply == SelectCardReply(g, u, position) IN
  /\ IF reply # "MEMORY_CARD_OPENED"
       THEN UNCHANGED <<heap, turnTimers, pmTasks>>
       ELSE LET second == Len(heap[o].selectedCards) = 1 IN
            /\ second => pmTasks[g] < MaxTasks
            /\ heap' = [heap EXCEPT ![o].flipped = @ \cup {position},
                                    ![o].selectedCards = Append(@, position),
                                    ![o].processingCards =
                                        LockedAfter(Len(heap[o].selectedCards) + 1)]
            /\ turnTimers' = IF second THEN TimerCleared(turnTimers, g) ELSE turnTimers
            /\ pmTasks' = IF second THEN [pmTasks EXCEPT ![g] = @ + 1] ELSE pmTasks

\* the catch block of processMatch
MatchCaught(obj) == [obj EXCEPT !.selectedCards = <<>>, !.processingCards = FALSE]

\* processMatch on a pair: the cards are matched and the score of the player in
\* turn goes up; currentPlayer.score throws when that player has been removed
Matched(obj) ==
  LET u == obj.currentTurnPlayerId
      scored == [x \in DOMAIN obj.scores \cup {u} |->
                    IF x # u THEN obj.scores[x]
                    ELSE IF u \in DOMAIN obj.scores THEN obj.scores[u] + 10 ELSE NaN]
      done == [obj EXCEPT !.matched = @ \cup SeqSet(obj.selectedCards),
                          !.matchedPairs = @ + 1,
                          !.scores = scored]
  IN IF u \in SeqSet(obj.players) THEN done ELSE MatchCaught(done)

\* processMatch on two different cards: they are flipped back, then nextTurn
Mismatched(obj) ==
  LET back == [obj EXCEPT !.flipped = @ \ SeqSet(obj.selectedCards)]
  IN \* the MEMORY_CARDS_MISMATCHED event reads players[(index + 1) % length].name
     IF NextTurnThrows(back) THEN MatchCaught(back) ELSE NextTurned(back)

IsPair(g, obj) == Symbol(g, obj.selectedCards[1]) = Symbol(g, obj.selectedCards[2])

\* the setTimeout of selectCard fires: processMatch(gameId)
ProcessMatch(g) ==
  LET o == games[g] IN
  /\ pmTasks[g] > 0
  /\ pmTasks' = [pmTasks EXCEPT ![g] = @ - 1]
  /\ IF o = NoRef \/ Len(heap[o].selectedCards) # 2
       THEN UNCHANGED <<heap, turnTimers, ends, pmWrites>>
       ELSE IF IsPair(g, heap[o])
         THEN LET obj == Matched(heap[o])
                  thrown == heap[o].currentTurnPlayerId \notin SeqSet(heap[o].players)
                  over == ~thrown /\ obj.matchedPairs >= TotalPairs
              IN /\ over => \E s \in EndSlots : ends[s].pc = "idle"
                 /\ (~thrown /\ ~over) => pmWrites[g] < MaxTasks
                 /\ heap' = [heap EXCEPT ![o] =
                       IF thrown \/ over THEN obj
                       ELSE [obj EXCEPT !.selectedCards = <<>>, !.processingCards = FALSE]]
                 /\ ends' = IF over THEN EndEntered(g, "game_completed", "match") ELSE ends
                 /\ turnTimers' = IF over THEN TimerCleared(turnTimers, g)
                                  ELSE IF thrown THEN turnTimers
                                  ELSE TimerRestarted(turnTimers, g)
                 /\ pmWrites' = IF thrown \/ over THEN pmWrites
                                ELSE [pmWrites EXCEPT ![g] = @ + 1]
         ELSE LET obj == Mismatched(heap[o])
                  thrown == NextTurnThrows(heap[o])
              IN /\ ~thrown => pmWrites[g] < MaxTasks
                 /\ heap' = [heap EXCEPT ![o] = obj]
                 /\ turnTimers' = IF thrown THEN turnTimers
                                  ELSE TimerRestarted(turnTimers, g)
                 /\ pmWrites' = IF thrown THEN pmWrites
                                ELSE [pmWrites EXCEPT ![g] = @ + 1]
                 /\ UNCHANGED ends

\* an updateGameState(gameId, board, currentTurnIndex, 'PLAYING', null) of
\* processMatch reaches the database
MatchWriteLands(g) ==
  /\ pmWrites[g] > 0
  /\ pmWrites' = [pmWrites EXCEPT ![g] = @ - 1]
  /\ gamesDb' = [gamesDb EXCEPT ![g].status = "PLAYING", ![g].winner = "none"]

\* handleTurnTimeout up to the elimination: the player in turn loses a lifeline
\* and leaves the game with the last one
Penalised(obj) ==
  LET u == obj.currentTurnPlayerId IN
  IF u \in SeqSet(obj.players) /\ obj.lifelines[u] > 0
    THEN IF obj.lifelines[u] = 1 THEN Removed(obj, u)
         ELSE [obj EXCEPT !.lifelines[u] = @ - 1]
    ELSE obj

\* a timeout that leaves the selected cards face up
LeftFaceUp(obj, before) == obj

\* handleTurnTimeout after an elimination that leaves the game running: the
\* index is adjusted; then the selected cards are flipped back
FlippedBack(obj, before) ==
  LET adjusted == IF Len(obj.players) < Len(before.players)
                     /\ obj.currentTurnIndex >= Len(obj.players)
                  THEN [obj EXCEPT !.currentTurnIndex = 0] ELSE obj
  IN [adjusted EXCEPT !.flipped = @ \ SeqSet(adjusted.selectedCards)]

\* TRUE when the last statements of handleTurnTimeout throw, before startTurnTimer
SkipThrows(obj) ==
  IF obj.currentTurnPlayerId \in SeqSet(obj.players) THEN NextTurnThrows(obj)
  ELSE obj.currentTurnIndex + 1 \notin DOMAIN obj.players

\* the end of handleTurnTimeout: nextTurn, or the player at the index takes the
\* turn when the one in turn is gone
Skipped(obj) ==
  IF obj.currentTurnPlayerId \in SeqSet(obj.players) THEN NextTurned(obj)
  ELSE IF SkipThrows(obj) THEN obj
  ELSE [obj EXCEPT !.currentTurnPlayerId = obj.players[obj.currentTurnIndex + 1]]

\* the turn timer of a game fires.  selectCard clears the timer when it
\* schedules processMatch 100 ms ahead, and a timer armed since then has its
\* TURN_TIMER of 15 s to run: it fires after the pending processMatch
TurnTimeout(g) ==
  LET o == games[g] IN
  /\ turnTimers[g] > 0
  /\ pmTasks[g] = 0
  /\ IF o = NoRef
       THEN /\ turnTimers' = TimerFired(turnTimers, g)
            /\ UNCHANGED <<heap, ends>>
       ELSE LET obj == Penalised(heap[o])
                eliminated == Len(obj.players) < Len(heap[o].players)
            IN IF eliminated /\ Len(obj.players) = 1
                 THEN /\ \E s \in EndSlots : ends[s].pc = "idle"
                      /\ heap' = [heap EXCEPT ![o] = obj]
                      /\ ends' = EndEntered(g, "opponent_eliminated", "timeout")
                      /\ turnTimers' = TimerCleared(TimerFired(turnTimers, g), g)
                 ELSE /\ heap' = [heap EXCEPT ![o] = Skipped(FlippedBack(obj, heap[o]))]
                      /\ turnTimers' = IF SkipThrows(FlippedBack(obj, heap[o]))
                                       THEN TimerFired(turnTimers, g)
                                       ELSE TimerRestarted(TimerFired(turnTimers, g), g)
                      /\ UNCHANGED ends

(***************************************************************************)
(* MemoryGameService.safeProcessWinnings and the end of endGame            *)
(***************************************************************************)
WinningRows(g) ==
  {r \in txns : r.gameId = g /\ r.type = "GAME_WINNING" /\ r.status = "COMPLETED"}

\* gameService.getGameById reads the row and its participants, which never
\* change after createGame; then transaction.findFirst for a COMPLETED
\* GAME_WINNING row of the game picks the branch
SettleBranch(g, reason, winnerId) ==
  IF WinningRows(g) # {} THEN "already_processed_in_db"
  ELSE IF reason = "network_issue" THEN "refund"
  ELSE IF winnerId # "none" /\ reason \in {"game_completed", "opponent_eliminated",
                                          "opponent_quit"} THEN "credit"
  ELSE "invalid"

SPWFind(s) ==
  LET e == ends[s]
      branch == SettleBranch(e.game, e.reason, e.winnerId) IN
  /\ e.pc = "spw_find"
  /\ CASE branch = "refund" ->
            /\ ends' = [ends EXCEPT ![s].pc = "refund", ![s].i = 1]
            /\ UNCHANGED processedWinnings
       [] branch = "credit" ->
            /\ ends' = [ends EXCEPT ![s].pc = "credit"]
            /\ UNCHANGED processedWinnings
       [] branch = "already_processed_in_db" ->
            /\ ends' = [ends EXCEPT ![s].pc = "cleanup", ![s].result = branch]
            /\ UNCHANGED processedWinnings
       [] OTHER ->
            /\ ends' = [ends EXCEPT ![s].pc = "cleanup", ![s].result = "invalid_outcome"]
            /\ processedWinnings' = processedWinnings \ {e.game}

\* the catch block: the game leaves processedWinnings "so it can be retried"
SettleThrown(s) ==
  /\ ends' = [ends EXCEPT ![s].pc = "cleanup", ![s].result = "processing_error"]
  /\ processedWinnings' = processedWinnings \ {ends[s].game}

\* one round of the refund loop: creditWallet(participant, entryFee, 'REFUND')
SPWRefund(s) ==
  LET e == ends[s]
      row == gamesDb[e.game] IN
  /\ e.pc = "refund"
  /\ IF CreditRejects(row.fee)
       THEN SettleThrown(s) /\ UNCHANGED <<wallet, txns>>
       ELSE /\ CreditApply(row.participants[e.i], row.fee, "REFUND", e.game)
            /\ ends' = IF e.i = Len(row.participants)
                       THEN [ends EXCEPT ![s].pc = "cleanup",
                                         ![s].result = "refunded_all_players"]
                       ELSE [ends EXCEPT ![s].i = e.i + 1]
            /\ UNCHANGED processedWinnings

\* the winner paid the entry fees in full instead of the prize pool
WinnerTakesStake(row) == row.fee * Len(row.participants)

\* the amount safeProcessWinnings pays the winner
WinnerAmount(row) == row.prizePool

\* creditWallet(winnerId, prizePool, 'GAME_WINNING')
SPWCredit(s) ==
  LET e == ends[s]
      row == gamesDb[e.game] IN
  /\ e.pc = "credit"
  /\ IF CreditRejects(WinnerAmount(row))
       THEN SettleThrown(s) /\ UNCHANGED <<wallet, txns>>
       ELSE /\ CreditApply(e.winnerId, WinnerAmount(row), "GAME_WINNING", e.game)
            /\ ends' = [ends EXCEPT ![s].pc = "cleanup", ![s].result = "winner_credited"]
            /\ UNCHANGED processedWinnings

\* creditWallet fails on the database (connection lost, transaction timeout)
SPWFail(s) ==
  /\ ends[s].pc \in {"refund", "credit"}
  /\ faults < MaxFaults
  /\ faults' = faults + 1
  /\ SettleThrown(s)

\* safeProcessWinnings has returned: games.delete(gameId); the caller resumes
\* once the bot clean-up of endGame has been awaited
EndCleanup(s) ==
  /\ ends[s].pc = "cleanup"
  /\ games' = [games EXCEPT ![ends[s].game] = NoRef]
  /\ ends' = [ends EXCEPT ![s] = IF ends[s].caller = "exit"
                                 THEN [EndIdle EXCEPT !.pc = "return",
                                                      !.game = ends[s].game,
                                                      !.obj = ends[s].obj]
                                 ELSE EndIdle]
  /\ heap' = Swept(heap, games', ends')

\* handlePlayerExit after its endGame: a game state without players is deleted
\* from the map under the room id
EndReturn(s) ==
  /\ ends[s].pc = "return"
  /\ games' = IF heap[ends[s].obj].players = <<>>
              THEN [games EXCEPT ![ends[s].game] = NoRef] ELSE games
  /\ ends' = [ends EXCEPT ![s] = EndIdle]
  /\ heap' = Swept(heap, games', ends')

(***************************************************************************)
(* Specifications.  Each one starts the server in a state it can be in and *)
(* runs the handlers of one part of it; what the part does not touch stays *)
(* as the constructors leave it.                                           *)
(***************************************************************************)
DedSlots == 1..MaxDed
AllDedSlots == {CgSlot} \cup DedSlots

NoWallet == [balance |-> 0, gameBalance |-> 0, withdrawableBalance |-> 0]
WalletOf(g, w) == [balance |-> g + w, gameBalance |-> g, withdrawableBalance |-> w]

LedgerIdle ==
  /\ txns = {}
  /\ ongoingDeductions = {}
  /\ ded = [s \in AllDedSlots |-> DedIdle]

MatchIdle ==
  /\ queue = <<>>
  /\ nextGame = 0
  /\ joins = [s \in JoinSlots |-> JoinIdle]
  /\ mm = MmIdle
  /\ botTimers = [f \in Fees |-> <<>>]
  /\ FillIdle

StartIdle ==
  /\ autoStart = {}
  /\ starts = [g \in GameIds |-> "idle"]
  /\ requests = 0
  /\ stTasks = [g \in GameIds |-> 0]

PlayIdle ==
  /\ games = [g \in GameIds |-> NoRef]
  /\ heap = [o \in Refs |-> NoObj]
  /\ turnTimers = [g \in GameIds |-> 0]
  /\ pmTasks = [g \in GameIds |-> 0]
  /\ pmWrites = [g \in GameIds |-> 0]

SettleIdle ==
  /\ ends = [s \in EndSlots |-> EndIdle]
  /\ processedWinnings = {}
  /\ faults = 0

PayIdle ==
  /\ orders = [o \in OrderIds |-> NoOrder]
  /\ wreqs = [r \in ReqIds |-> NoReq]
  /\ pay = [s \in PaySlots |-> NoPay]

(***************************************************************************)
(* SpecLedger: walletService alone, deductGameEntry and creditWallet       *)
(* called for one account                                                  *)
(***************************************************************************)
\* the gameBalance the ledger calls start from: nothing, less than the entry
\* fee, the entry fee
LedgerOpenings == OpeningBalances \cup {PaidFee - 2}

InitLedger ==
  /\ \E g \in LedgerOpenings, w \in OpeningBalances :
        wallet = [u \in Users |-> IF u = "u1" THEN WalletOf(g, w) ELSE NoWallet]
  /\ opening = [u \in Users |-> Total(wallet[u])]
  /\ LedgerIdle /\ MatchIdle /\ StartIdle /\ PlayIdle /\ SettleIdle /\ PayIdle
  /\ gamesDb = [g \in GameIds |-> NoGameRow]

DedCall ==
  /\ \E s \in DedSlots, g \in LedgerGames, a \in Fees :
        /\ \A s2 \in 1..(s - 1) : ded[s2].pc # "idle"
        /\ DedEnter(s, "u1", a, g, "api")
  /\ UNCHANGED <<wallet, opening, txns>>
  /\ UNCHANGED <<matchVars, gamesDb, startVars, playVars, settleVars>>
  /\ UNCHANGED payVars
  /\ UNCHANGED fillVars

DedFindStep ==
  /\ \E s \in AllDedSlots : DedFind(s)
  /\ UNCHANGED <<matchVars, gamesDb, startVars, playVars, settleVars>>
  /\ UNCHANGED payVars
  /\ UNCHANGED fillVars

DedWalletStep ==
  /\ \E s \in AllDedSlots : DedWallet(s)
  /\ UNCHANGED <<matchVars, gamesDb, startVars, playVars, settleVars>>
  /\ UNCHANGED payVars
  /\ UNCHANGED fillVars

DedTxStep ==
  /\ Cardinality(txns) < MaxTx
  /\ \E s \in AllDedSlots : DedTx(s)
  /\ UNCHANGED <<matchVars, gamesDb, startVars, playVars, settleVars>>
  /\ UNCHANGED payVars
  /\ UNCHANGED fillVars

CreditCall ==
  /\ Cardinality(txns) < MaxTx
  /\ \E g \in LedgerGames, t \in CreditKinds : CreditApply("u1", PaidFee, t, g)
  /\ UNCHANGED <<opening, ongoingDeductions, ded>>
  /\ UNCHANGED <<matchVars, gamesDb, startVars, playVars, settleVars>>
  /\ UNCHANGED payVars
  /\ UNCHANGED fillVars

NextLedger == DedCall \/ DedFindStep \/ DedWalletStep \/ DedTxStep \/ CreditCall

SpecLedger == InitLedger /\ [][NextLedger]_vars

(***************************************************************************)
(* SpecWallet: the routes of one account: deposits, withdrawal requests    *)
(* and their status updates, next to entry fees and winnings               *)
(***************************************************************************)
Payer == "u1"
WithdrawableOpenings == {0, MinWithdrawal}

InitWallet ==
  /\ \E g \in OpeningBalances, w \in WithdrawableOpenings :
        wallet = [u \in Users |-> IF u = Payer THEN WalletOf(g, w) ELSE NoWallet]
  /\ opening = [u \in Users |-> Total(wallet[u])]
  /\ LedgerIdle /\ MatchIdle /\ StartIdle /\ PlayIdle /\ SettleIdle /\ PayIdle
  /\ gamesDb = [g \in GameIds |-> NoGameRow]

\* the entry fee of one paid game is taken from the account
EntryCall ==
  /\ DedEnter(1, Payer, PaidFee, 1, "api")
  /\ UNCHANGED <<wallet, opening, txns>>
  /\ UNCHANGED <<matchVars, gamesDb, startVars, playVars, settleVars>>
  /\ UNCHANGED payVars
  /\ UNCHANGED fillVars

\* the account is credited the winnings of a game
WinningCall ==
  /\ Cardinality(txns) < MaxTx
  /\ CreditApply(Payer, PaidFee, "GAME_WINNING", 1)
  /\ UNCHANGED <<opening, ongoingDeductions, ded>>
  /\ UNCHANGED <<matchVars, gamesDb, startVars, playVars, settleVars>>
  /\ UNCHANGED payVars
  /\ UNCHANGED fillVars

DepositOrderStep ==
  /\ \E amount \in DepositAmounts : DepositOrder(Payer, amount)
  /\ UNCHANGED <<ledgerVars, matchVars, gamesDb, startVars, playVars, settleVars>>
  /\ UNCHANGED <<wreqs, pay>>
  /\ UNCHANGED fillVars

DepositCall ==
  /\ \E s \in PaySlots, o \in OrderIds, amount \in DepositAmounts :
        /\ \A s2 \in 1..(s - 1) : pay[s2].pc # "idle"
        /\ orders[o] # NoOrder
        /\ DepositEnter(s, o, amount)
  /\ UNCHANGED <<ledgerVars, matchVars, gamesDb, startVars, playVars, settleVars>>
  /\ UNCHANGED <<orders, wreqs>>
  /\ UNCHANGED fillVars

DepositFindStep ==
  /\ \E s \in PaySlots, valid \in BOOLEAN : DepositFind(s, valid)
  /\ UNCHANGED <<ledgerVars, matchVars, gamesDb, startVars, playVars, settleVars>>
  /\ UNCHANGED wreqs
  /\ UNCHANGED fillVars

DepositTxStep ==
  /\ \E s \in PaySlots : DepositTx(s, Payer)
  /\ UNCHANGED <<opening, txns, ongoingDeductions, ded>>
  /\ UNCHANGED <<matchVars, gamesDb, startVars, playVars, settleVars>>
  /\ UNCHANGED wreqs
  /\ UNCHANGED fillVars

WithdrawCall ==
  /\ \E s \in PaySlots, amount \in WithdrawalAmounts :
        /\ \A s2 \in 1..(s - 1) : pay[s2].pc # "idle"
        /\ WithdrawEnter(s, amount)
  /\ UNCHANGED <<ledgerVars, matchVars, gamesDb, startVars, playVars, settleVars>>
  /\ UNCHANGED <<orders, wreqs>>
  /\ UNCHANGED fillVars

WithdrawCheckStep ==
  /\ \E s \in PaySlots : WithdrawCheck(s, Payer)
  /\ UNCHANGED <<ledgerVars, matchVars, gamesDb, startVars, playVars, settleVars>>
  /\ UNCHANGED <<orders, wreqs>>
  /\ UNCHANGED fillVars

WithdrawTxStep ==
  /\ \E s \in PaySlots : WithdrawTx(s, Payer)
  /\ UNCHANGED <<opening, txns, ongoingDeductions, ded>>
  /\ UNCHANGED <<matchVars, gamesDb, startVars, playVars, settleVars>>
  /\ UNCHANGED orders
  /\ UNCHANGED fillVars

WithdrawalStatusStep ==
  /\ \E r \in ReqIds, status \in {"COMPLETED", "REJECTED", "CANCELLED"} :
        WithdrawalStatus(r, Payer, status)
  /\ UNCHANGED <<opening, txns, ongoingDeductions, ded>>
  /\ UNCHANGED <<matchVars, gamesDb, startVars, playVars, settleVars>>
  /\ UNCHANGED <<orders, pay>>
  /\ UNCHANGED fillVars

PMDepositStep ==
  /\ \E o \in OrderIds, amount \in DepositAmounts : PMDeposit(o, Payer, amount)
  /\ UNCHANGED <<opening, txns, ongoingDeductions, ded>>
  /\ UNCHANGED <<matchVars, gamesDb, startVars, playVars, settleVars>>
  /\ UNCHANGED <<wreqs, pay>>
  /\ UNCHANGED fillVars

PMWithdrawStep ==
  /\ Cardinality(txns) < MaxTx
  /\ \E amount \in WithdrawalAmounts : PMWithdraw(Payer, amount)
  /\ UNCHANGED <<opening, ongoingDeductions, ded>>
  /\ UNCHANGED <<matchVars, gamesDb, startVars, playVars, settleVars>>
  /\ UNCHANGED payVars
  /\ UNCHANGED fillVars

NextWallet ==
  \/ EntryCall \/ DedFindStep \/ DedWalletStep \/ DedTxStep \/ WinningCall
  \/ DepositOrderStep \/ DepositCall \/ DepositFindStep \/ DepositTxStep
  \/ WithdrawCall \/ WithdrawCheckStep \/ WithdrawTxStep \/ WithdrawalStatusStep
  \/ PMDepositStep \/ PMWithdrawStep

SpecWallet == InitWallet /\ [][NextWallet]_vars

(***************************************************************************)
(* The handlers of matchmaking, as steps of the specifications below       *)
(***************************************************************************)
InitMatch ==
  /\ wallet = [u \in Users |->
        IF u = "u1" THEN WalletOf(PaidFee, 0) ELSE WalletOf(PaidFee, PaidFee)]
  /\ opening = [u \in Users |-> Total(wallet[u])]
  /\ LedgerIdle /\ MatchIdle /\ StartIdle /\ PlayIdle /\ SettleIdle /\ PayIdle
  /\ gamesDb = [g \in GameIds |-> NoGameRow]

\* a join request for any queue key, by either way in
JoinCall ==
  /\ \E s \in JoinSlots, u \in Users, fee \in Fees, via \in {"socket", "http"} :
        /\ \A s2 \in 1..(s - 1) : joins[s2].pc # "idle"
        /\ JoinEnter(s, u, fee, via)
  /\ UNCHANGED <<queue, nextGame, mm, botTimers>>
  /\ UNCHANGED <<ledgerVars, gamesDb, startVars, playVars, settleVars>>
  /\ UNCHANGED payVars
  /\ UNCHANGED fillVars

\* a join request for the paid game
JoinPaid ==
  /\ \E s \in JoinSlots, u \in Users, via \in {"socket", "http"} :
        /\ \A s2 \in 1..(s - 1) : joins[s2].pc # "idle"
        /\ JoinEnter(s, u, PaidFee, via)
  /\ UNCHANGED <<queue, nextGame, mm, botTimers>>
  /\ UNCHANGED <<ledgerVars, gamesDb, startVars, playVars, settleVars>>
  /\ UNCHANGED payVars
  /\ UNCHANGED fillVars

\* a join request for the free game while no other request is in flight
JoinFree ==
  /\ \E u \in Users, via \in {"socket", "http"} :
        /\ \A s2 \in JoinSlots : joins[s2].pc = "idle"
        /\ JoinEnter(1, u, 0, via)
  /\ UNCHANGED <<queue, nextGame, mm, botTimers>>
  /\ UNCHANGED <<ledgerVars, gamesDb, startVars, playVars, settleVars>>
  /\ UNCHANGED payVars
  /\ UNCHANGED fillVars

JoinPrecheckStep ==
  /\ \E s \in JoinSlots : JoinPrecheck(s)
  /\ UNCHANGED <<queue, nextGame, mm, botTimers>>
  /\ UNCHANGED <<ledgerVars, gamesDb, startVars, playVars, settleVars>>
  /\ UNCHANGED payVars
  /\ UNCHANGED fillVars

JoinBalanceStep ==
  /\ \E s \in JoinSlots : JoinBalance(s)
  /\ UNCHANGED <<queue, nextGame, mm, botTimers>>
  /\ UNCHANGED <<ledgerVars, gamesDb, startVars, playVars, settleVars>>
  /\ UNCHANGED payVars
  /\ UNCHANGED fillVars

JoinExistingStep ==
  /\ \E s \in JoinSlots : JoinExisting(s)
  /\ UNCHANGED <<queue, nextGame, mm, botTimers>>
  /\ UNCHANGED <<ledgerVars, gamesDb, startVars, playVars, settleVars>>
  /\ UNCHANGED payVars
  /\ UNCHANGED fillVars

JoinOthersStep ==
  /\ \E s \in JoinSlots : JoinOthers(s)
  /\ UNCHANGED <<queue, nextGame, mm, botTimers>>
  /\ UNCHANGED <<ledgerVars, gamesDb, startVars, playVars, settleVars>>
  /\ UNCHANGED payVars
  /\ UNCHANGED fillVars

JoinDeleteStep ==
  /\ \E s \in JoinSlots : JoinDelete(s)
  /\ UNCHANGED <<nextGame, mm, botTimers>>
  /\ UNCHANGED <<ledgerVars, gamesDb, startVars, playVars, settleVars>>
  /\ UNCHANGED payVars
  /\ UNCHANGED fillVars

\* the row is created and the timer armed, in a millisecond of its own
JoinCreateStep ==
  /\ \E s \in JoinSlots : JoinCreate(s, FALSE)
  /\ UNCHANGED <<nextGame, mm>>
  /\ UNCHANGED <<ledgerVars, gamesDb, startVars, playVars, settleVars>>
  /\ UNCHANGED payVars
  /\ UNCHANGED deploys

\* the same in the millisecond in which the last timer of the key was armed
JoinCollideStep ==
  /\ \E s \in JoinSlots : JoinCreate(s, TRUE)
  /\ UNCHANGED <<nextGame, mm>>
  /\ UNCHANGED <<ledgerVars, gamesDb, startVars, playVars, settleVars>>
  /\ UNCHANGED payVars
  /\ UNCHANGED deploys

\* leaveMatchmaking, POST /leave and the disconnect handler
LeaveCall ==
  /\ \E u \in Users : RowsOf(u) # {} /\ LeaveRows(u)
  /\ UNCHANGED <<nextGame, mm, botTimers>>
  /\ UNCHANGED <<ledgerVars, gamesDb, startVars, playVars, settleVars>>
  /\ UNCHANGED payVars
  /\ UNCHANGED fillVars

PMStartStep ==
  /\ PMStart
  /\ UNCHANGED <<queue, nextGame, joins, botTimers>>
  /\ UNCHANGED <<ledgerVars, gamesDb, startVars, playVars, settleVars>>
  /\ UNCHANGED payVars
  /\ UNCHANGED fillVars

PMSkipStep ==
  /\ PMSkip
  /\ UNCHANGED <<queue, nextGame, joins, botTimers>>
  /\ UNCHANGED <<ledgerVars, gamesDb, startVars, playVars, settleVars>>
  /\ UNCHANGED payVars
  /\ UNCHANGED fillVars

PMFinishStep ==
  /\ PMFinish
  /\ UNCHANGED <<queue, nextGame, joins, botTimers>>
  /\ UNCHANGED <<ledgerVars, gamesDb, startVars, playVars, settleVars>>
  /\ UNCHANGED payVars
  /\ UNCHANGED fillVars

CGFindStep ==
  /\ CGFind
  /\ UNCHANGED <<joins, botTimers>>
  /\ UNCHANGED <<ledgerVars, gamesDb, startVars, playVars, settleVars>>
  /\ UNCHANGED payVars
  /\ UNCHANGED fillVars

CGDeleteStep ==
  /\ CGDelete
  /\ UNCHANGED <<nextGame, joins, botTimers>>
  /\ UNCHANGED <<ledgerVars, gamesDb, startVars, playVars, settleVars>>
  /\ UNCHANGED payVars
  /\ UNCHANGED fillVars

CGPartStep ==
  /\ CGPart
  /\ UNCHANGED <<queue, nextGame, joins, botTimers>>
  /\ UNCHANGED <<gamesDb, startVars, playVars, settleVars>>
  /\ UNCHANGED payVars
  /\ UNCHANGED fillVars

CGAfterDeductStep ==
  /\ CGAfterDeduct
  /\ UNCHANGED <<wallet, opening, txns, ongoingDeductions>>
  /\ UNCHANGED <<nextGame, joins, botTimers>>
  /\ UNCHANGED <<gamesDb, startVars, playVars, settleVars>>
  /\ UNCHANGED payVars
  /\ UNCHANGED fillVars

CGCommitStep ==
  /\ CGCommit
  /\ UNCHANGED nextGame
  /\ UNCHANGED <<ledgerVars, starts, stTasks, playVars, settleVars, requests>>
  /\ UNCHANGED payVars
  /\ UNCHANGED fillVars

AutoStartFireStep ==
  /\ \E g \in GameIds : AutoStartFire(g)
  /\ UNCHANGED <<ledgerVars, matchVars, gamesDb, stTasks, playVars, settleVars, requests>>
  /\ UNCHANGED payVars
  /\ UNCHANGED fillVars

AutoStartCheckStep ==
  /\ \E g \in GameIds : AutoStartCheck(g)
  /\ UNCHANGED <<ledgerVars, matchVars, gamesDb, autoStart, stTasks, playVars, settleVars, requests>>
  /\ UNCHANGED payVars
  /\ UNCHANGED fillVars

StartCreateStep ==
  /\ \E g \in GameIds : StartCreate(g)
  /\ UNCHANGED <<ledgerVars, matchVars, gamesDb, autoStart, stTasks, requests>>
  /\ UNCHANGED <<turnTimers, pmTasks, pmWrites, settleVars>>
  /\ UNCHANGED payVars
  /\ UNCHANGED fillVars

StartUpdateStep ==
  /\ \E g \in GameIds : StartUpdate(g)
  /\ UNCHANGED <<ledgerVars, matchVars, autoStart, playVars, settleVars, requests>>
  /\ UNCHANGED payVars
  /\ UNCHANGED fillVars

StartTimerStep ==
  /\ \E g \in GameIds : StartTimerTask(g)
  /\ UNCHANGED <<ledgerVars, matchVars, gamesDb, autoStart, starts, requests>>
  /\ UNCHANGED <<games, heap, pmTasks, pmWrites, settleVars>>
  /\ UNCHANGED payVars
  /\ UNCHANGED fillVars

(***************************************************************************)
(* SpecQueue: the users join and leave the queues of both games, two       *)
(* requests at a time; no matchmaking cycle runs                           *)
(***************************************************************************)
NextQueue ==
  \/ JoinCall \/ JoinPrecheckStep \/ JoinBalanceStep \/ JoinExistingStep
  \/ JoinOthersStep \/ JoinDeleteStep \/ JoinCreateStep \/ LeaveCall

SpecQueue == InitMatch /\ [][NextQueue]_vars

(***************************************************************************)
(* SpecMatch: the users join and leave the queue of the paid game while    *)
(* the matchmaking cycle forms games and debits the entry fees             *)
(***************************************************************************)
NextMatch ==
  \/ JoinPaid \/ JoinPrecheckStep \/ JoinBalanceStep \/ JoinExistingStep
  \/ JoinOthersStep \/ JoinDeleteStep \/ JoinCreateStep \/ LeaveCall
  \/ PMStartStep \/ PMFinishStep \/ CGFindStep \/ CGDeleteStep \/ CGPartStep
  \/ CGAfterDeductStep \/ CGCommitStep
  \/ DedFindStep \/ DedWalletStep \/ DedTxStep

SpecMatch == InitMatch /\ [][NextMatch]_vars

(***************************************************************************)
(* SpecBackfill: the users join and leave the queue of the free game; the  *)
(* bot deployment timers fire and add a bot; passes of processMatchmaking  *)
(* are invoked at any moment and form games                                *)
(***************************************************************************)
TimerFireStep ==
  /\ \E d \in DeploySlots, fee \in Fees : TimerFire(d, fee)
  /\ UNCHANGED <<queue, nextGame, joins, mm>>
  /\ UNCHANGED <<ledgerVars, gamesDb, startVars, playVars, settleVars>>
  /\ UNCHANGED payVars

DeployCountStep ==
  /\ \E d \in DeploySlots : DeployCount(d)
  /\ UNCHANGED <<ledgerVars, matchVars, gamesDb, startVars, playVars, settleVars>>
  /\ UNCHANGED <<payVars, strays>>

DeployHumansStep ==
  /\ \E d \in DeploySlots : DeployHumans(d)
  /\ UNCHANGED <<ledgerVars, matchVars, gamesDb, startVars, playVars, settleVars>>
  /\ UNCHANGED <<payVars, strays>>

DeployFindStep ==
  /\ \E d \in DeploySlots : DeployFind(d)
  /\ UNCHANGED <<ledgerVars, matchVars, gamesDb, startVars, playVars, settleVars>>
  /\ UNCHANGED <<payVars, strays>>

DeployEnqueueStep ==
  /\ \E d \in DeploySlots : DeployEnqueue(d)
  /\ UNCHANGED <<nextGame, joins, mm, botTimers>>
  /\ UNCHANGED <<ledgerVars, gamesDb, startVars, playVars, settleVars>>
  /\ UNCHANGED <<payVars, strays>>

NextBackfill ==
  \/ JoinFree \/ JoinPrecheckStep \/ JoinExistingStep \/ JoinOthersStep
  \/ JoinCreateStep \/ JoinCollideStep \/ LeaveCall
  \/ PMStartStep \/ PMSkipStep \/ PMFinishStep
  \/ CGFindStep \/ CGDeleteStep \/ CGPartStep \/ CGCommitStep
  \/ TimerFireStep \/ DeployCountStep \/ DeployHumansStep \/ DeployFindStep
  \/ DeployEnqueueStep

SpecBackfill == InitMatch /\ [][NextBackfill]_vars

(***************************************************************************)
(* SpecStart: the users join the queue of the free game, the cycle forms   *)
(* games and the auto-start starts them                                    *)
(***************************************************************************)
NextStart ==
  \/ JoinFree \/ JoinPrecheckStep \/ JoinExistingStep
  \/ JoinOthersStep \/ JoinCreateStep
  \/ PMStartStep \/ PMFinishStep \/ CGFindStep \/ CGDeleteStep \/ CGPartStep
  \/ CGCommitStep
  \/ AutoStartFireStep \/ AutoStartCheckStep \/ StartCreateStep \/ StartUpdateStep
  \/ StartTimerStep

SpecStart == InitMatch /\ [][NextStart]_vars

(***************************************************************************)
(* SpecSettle: one game of two players has been formed; it is started by   *)
(* the auto-start or by START_MEMORY_GAME, the players leave or lose their *)
(* connection, endGame settles it, and creditWallet may fail MaxFaults     *)
(* times                                                                   *)
(***************************************************************************)
Seats == <<"u1", "u2">>
FormedGame == 1

\* the state createGame leaves behind for a game of entry fee `fee`
Formed(fee) ==
  /\ gamesDb = [g \in GameIds |-> IF g = FormedGame THEN GameRow(fee, Seats)
                                  ELSE NoGameRow]
  /\ opening = [u \in Users |-> PaidFee]
  /\ wallet = [u \in Users |-> Debited(WalletOf(PaidFee, 0), fee)]
  /\ txns = IF fee > 0
            THEN {[EntryRow(u, fee, FormedGame) EXCEPT !.copy = 1] : u \in Users}
            ELSE {}
  /\ ongoingDeductions = {}
  /\ ded = [s \in AllDedSlots |-> DedIdle]
  /\ queue = <<>>
  /\ nextGame = FormedGame
  /\ joins = [s \in JoinSlots |-> JoinIdle]
  /\ mm = MmIdle
  /\ botTimers = [f \in Fees |-> <<>>]
  /\ FillIdle
  /\ autoStart = {FormedGame}
  /\ starts = [g \in GameIds |-> "idle"]
  /\ requests = 0
  /\ stTasks = [g \in GameIds |-> 0]
  /\ PlayIdle /\ SettleIdle /\ PayIdle

InitFormed == \E fee \in Fees : Formed(fee)

StartRequestStep ==
  /\ \E g \in FormedGames : StartRequest(g)
  /\ UNCHANGED <<ledgerVars, matchVars, gamesDb, autoStart, stTasks, playVars, settleVars>>
  /\ UNCHANGED payVars
  /\ UNCHANGED fillVars

PlayerLeaveStep ==
  /\ \E g \in GameIds, u \in Users : PlayerExit(g, u, "left")
  /\ UNCHANGED <<ledgerVars, matchVars, gamesDb, startVars>>
  /\ UNCHANGED <<pmTasks, pmWrites, processedWinnings, faults>>
  /\ UNCHANGED payVars
  /\ UNCHANGED fillVars

PlayerDisconnectStep ==
  /\ \E g \in GameIds, u \in Users : PlayerExit(g, u, "disconnected")
  /\ UNCHANGED <<ledgerVars, matchVars, gamesDb, startVars>>
  /\ UNCHANGED <<pmTasks, pmWrites, processedWinnings, faults>>
  /\ UNCHANGED payVars
  /\ UNCHANGED fillVars

EndGetStep ==
  /\ \E s \in EndSlots : EndGet(s)
  /\ UNCHANGED <<ledgerVars, matchVars, gamesDb, startVars, playVars>>
  /\ UNCHANGED <<processedWinnings, faults>>
  /\ UNCHANGED payVars
  /\ UNCHANGED fillVars

EndUpdateStep ==
  /\ \E s \in EndSlots : EndUpdate(s)
  /\ UNCHANGED <<ledgerVars, matchVars, startVars, playVars>>
  /\ UNCHANGED <<processedWinnings, faults>>
  /\ UNCHANGED payVars
  /\ UNCHANGED fillVars

EndUpdateRefusedStep ==
  /\ \E s \in EndSlots : EndUpdateRefused(s)
  /\ UNCHANGED <<ledgerVars, matchVars, gamesDb, startVars, playVars>>
  /\ UNCHANGED <<processedWinnings, faults>>
  /\ UNCHANGED payVars
  /\ UNCHANGED fillVars

EndSettleStep ==
  /\ \E s \in EndSlots : EndSettle(s)
  /\ UNCHANGED <<ledgerVars, matchVars, gamesDb, startVars, playVars, faults>>
  /\ UNCHANGED payVars
  /\ UNCHANGED fillVars

SPWFindStep ==
  /\ \E s \in EndSlots : SPWFind(s)
  /\ UNCHANGED <<ledgerVars, matchVars, gamesDb, startVars, playVars, faults>>
  /\ UNCHANGED payVars
  /\ UNCHANGED fillVars

SPWRefundStep ==
  /\ \E s \in EndSlots : SPWRefund(s)
  /\ UNCHANGED <<opening, ongoingDeductions, ded>>
  /\ UNCHANGED <<matchVars, gamesDb, startVars, playVars, faults>>
  /\ UNCHANGED payVars
  /\ UNCHANGED fillVars

SPWCreditStep ==
  /\ \E s \in EndSlots : SPWCredit(s)
  /\ UNCHANGED <<opening, ongoingDeductions, ded>>
  /\ UNCHANGED <<matchVars, gamesDb, startVars, playVars, faults>>
  /\ UNCHANGED payVars
  /\ UNCHANGED fillVars

SPWFailStep ==
  /\ \E s \in EndSlots : SPWFail(s)
  /\ UNCHANGED <<ledgerVars, matchVars, gamesDb, startVars, playVars>>
  /\ UNCHANGED payVars
  /\ UNCHANGED fillVars

EndCleanupStep ==
  /\ \E s \in EndSlots : EndCleanup(s)
  /\ UNCHANGED <<ledgerVars, matchVars, gamesDb, startVars>>
  /\ UNCHANGED <<turnTimers, pmTasks, pmWrites, processedWinnings, faults>>
  /\ UNCHANGED payVars
  /\ UNCHANGED fillVars

EndReturnStep ==
  /\ \E s \in EndSlots : EndReturn(s)
  /\ UNCHANGED <<ledgerVars, matchVars, gamesDb, startVars>>
  /\ UNCHANGED <<turnTimers, pmTasks, pmWrites, processedWinnings, faults>>
  /\ UNCHANGED payVars
  /\ UNCHANGED fillVars

NextSettle ==
  \/ AutoStartFireStep \/ AutoStartCheckStep \/ StartRequestStep
  \/ StartCreateStep \/ StartUpdateStep \/ StartTimerStep
  \/ PlayerLeaveStep \/ PlayerDisconnectStep
  \/ EndGetStep \/ EndUpdateStep \/ EndUpdateRefusedStep \/ EndSettleStep
  \/ SPWFindStep \/ SPWRefundStep \/ SPWCreditStep \/ SPWFailStep
  \/ EndCleanupStep \/ EndReturnStep

SpecSettle == InitFormed /\ [][NextSettle]_vars

(***************************************************************************)
(* SpecGame: the formed game is started by the auto-start and played: the  *)
(* players select cards in and out of turn, the turn timer runs out, a     *)
(* player leaves, and endGame settles the game                             *)
(***************************************************************************)
Requested == 0..BoardLength     \* the positions clients send, one beyond the board

SelectCardStep ==
  /\ \E g \in FormedGames, u \in Users, position \in Requested : SelectCard(g, u, position)
  /\ UNCHANGED <<ledgerVars, matchVars, gamesDb, startVars, settleVars>>
  /\ UNCHANGED <<games, pmWrites>>
  /\ UNCHANGED payVars
  /\ UNCHANGED fillVars

ProcessMatchStep ==
  /\ \E g \in GameIds : ProcessMatch(g)
  /\ UNCHANGED <<ledgerVars, matchVars, gamesDb, startVars>>
  /\ UNCHANGED <<games, processedWinnings, faults>>
  /\ UNCHANGED payVars
  /\ UNCHANGED fillVars

MatchWriteStep ==
  /\ \E g \in GameIds : MatchWriteLands(g)
  /\ UNCHANGED <<ledgerVars, matchVars, startVars, settleVars>>
  /\ UNCHANGED <<games, heap, turnTimers, pmTasks>>
  /\ UNCHANGED payVars
  /\ UNCHANGED fillVars

TurnTimeoutStep ==
  /\ \E g \in GameIds : TurnTimeout(g)
  /\ UNCHANGED <<ledgerVars, matchVars, gamesDb, startVars>>
  /\ UNCHANGED <<games, pmTasks, pmWrites, processedWinnings, faults>>
  /\ UNCHANGED payVars
  /\ UNCHANGED fillVars

NextGame ==
  \/ AutoStartFireStep \/ AutoStartCheckStep
  \/ StartCreateStep \/ StartUpdateStep \/ StartTimerStep
  \/ SelectCardStep \/ ProcessMatchStep \/ MatchWriteStep \/ TurnTimeoutStep
  \/ PlayerLeaveStep
  \/ EndGetStep \/ EndUpdateStep \/ EndSettleStep
  \/ SPWFindStep \/ SPWCreditStep
  \/ EndCleanupStep \/ EndReturnStep

InitGame == Formed(PaidFee)

SpecGame == InitGame /\ [][NextGame]_vars

(***************************************************************************)
(***************************************************************************)
(* Claims about the ledger                                                 *)
(***************************************************************************)
CreditedSum(u) ==
  SumRows({r \in txns : r.userId = u /\ r.type \in CreditKinds /\ r.status = "COMPLETED"})

\* C2: concurrent debits of one (account, session) never both succeed: at most
\* one COMPLETED GAME_ENTRY row per (account, session), the wallet is reduced by
\* exactly the debits recorded (no update is lost or applied twice), and no
\* debit decided on an outdated balance, so no sub-balance goes below zero.
Thm_C2_DebitAtMostOnce ==
  \A u \in Users :
    /\ \A g \in LedgerGames : Cardinality(TxRows(u, g, "GAME_ENTRY")) <= 1
    /\ wallet[u].gameBalance >= 0
    /\ wallet[u].withdrawableBalance >= 0
    /\ Total(wallet[u]) = opening[u] + CreditedSum(u) - SumRows(TxOf(u, "GAME_ENTRY"))

\* two calls for the same (account, session) overlapped: one debited, the other
\* was turned away while the first was in flight
Wit_C2_ConcurrentDebits ==
  \E s1, s2 \in DedSlots :
    /\ s1 # s2
    /\ ded[s1].userId = ded[s2].userId /\ ded[s1].gameId = ded[s2].gameId
    /\ ded[s1].pc = "done" /\ ded[s1].result = "success"
    /\ ded[s2].pc = "done" /\ ded[s2].result = "in_progress"

\* C3: the ledger holds at most one COMPLETED entry for each
\* (account id, session id, kind).
Cex_C3_OneCompletedPerKey ==
  \A u \in Users, g \in LedgerGames, t \in TxTypes : Cardinality(TxRows(u, g, t)) <= 1

(***************************************************************************)
(* Claims about matchmaking                                                *)
(***************************************************************************)
EntryRows(g) ==
  {r \in txns : r.gameId = g /\ r.type = "GAME_ENTRY" /\ r.status = "COMPLETED"}

\* C4: for every formed game with entry fee f and n participants the COMPLETED
\* GAME_ENTRY rows recorded for it sum to n*f, one row of f per participant.
Thm_C4_EntryFeesSum ==
  \A g \in FormedGames :
    LET row == gamesDb[g]
        n == Len(row.participants)
    IN /\ SumRows(EntryRows(g)) = n * row.fee
       /\ row.fee > 0 =>
            \A k \in 1..n :
               /\ Cardinality(TxRows(row.participants[k], g, "GAME_ENTRY")) = 1
               /\ \A r \in TxRows(row.participants[k], g, "GAME_ENTRY") : r.amount = row.fee

\* a paid game has been formed from two queue rows and both fees are recorded
Wit_C4_PaidGameFormed ==
  \E g \in FormedGames :
    /\ gamesDb[g].fee = PaidFee
    /\ Len(gamesDb[g].participants) = PartySize
    /\ Cardinality(EntryRows(g)) = PartySize

PlayingWith(u) ==
  {g \in GameIds : gamesDb[g].status = "PLAYING" /\ u \in SeqSet(gamesDb[g].participants)}

\* C7: at every instant every user is in at most one game whose status is PLAYING.
Cex_C7_OnePlayingGame == \A u \in Users : Cardinality(PlayingWith(u)) <= 1

\* the answers that tell the caller he is queued already
AlreadyAnswers == {"status_already", "already_success"}

\* C8: a join request of a user who has a queue row (under this or another key)
\* and has not left is answered as already queued, and the user then has exactly
\* one row.
Cex_C8_SecondJoinRefused ==
  [][\A s \in JoinSlots :
        (joins[s].pc # "idle" /\ joins'[s].pc = "idle" /\ joins[s].had)
          => /\ JoinAnswer(joins[s].pc) \in AlreadyAnswers
             /\ Cardinality({i \in DOMAIN queue' :
                               queue'[i].userId = joins[s].userId}) = 1]_vars

\* C9: every user has at most one row in matchmaking_queues, whatever the
\* interleaving of the join and leave requests.
Cex_C9_OneRowPerUser == \A u \in Users : Cardinality(RowsOf(u)) <= 1

(***************************************************************************)
(* Claims about the settlement (SpecSettle)                                *)
(***************************************************************************)
RefundRows(g) ==
  {r \in txns : r.gameId = g /\ r.type = "REFUND" /\ r.status = "COMPLETED"}

Stake(g) == Len(gamesDb[g].participants) * gamesDb[g].fee

\* C1: settling a game again, at the same time or later, leaves one COMPLETED
\* row per (account, game, kind) and pays no more than one settlement does: the
\* refunds and winnings of a game never exceed what its players paid in.
Cex_C1_SettleOnce ==
  \A g \in FormedGames :
    /\ \A u \in Users : /\ Cardinality(TxRows(u, g, "REFUND")) <= 1
                        /\ Cardinality(TxRows(u, g, "GAME_WINNING")) <= 1
    /\ SumRows(RefundRows(g)) + SumRows(WinningRows(g)) <= Stake(g)

Cex_C6_RefundRestores ==
  \A s \in EndSlots :
    (ends[s].pc = "cleanup" /\ ends[s].result = "refunded_all_players") =>
       LET g == ends[s].game IN
       /\ \A u \in SeqSet(gamesDb[g].participants) :
             /\ Cardinality(TxRows(u, g, "REFUND")) = 1
             /\ \A r \in TxRows(u, g, "REFUND") : r.amount = gamesDb[g].fee
             /\ Total(wallet[u]) = opening[u]
       /\ SumRows(RefundRows(g)) = Stake(g)

(***************************************************************************)
(* Claims about the turns (SpecGame)                                       *)
(***************************************************************************)
\* u is a player of the running game g and it is not u's turn
OutOfTurn(g, u) ==
  /\ games[g] # NoRef
  /\ heap[games[g]].status = "playing"
  /\ u \in SeqSet(heap[games[g]].players)
  /\ heap[games[g]].currentTurnPlayerId # u

MidResolution(g) ==
  /\ games[g] # NoRef
  /\ heap[games[g]].status = "playing"
  /\ Len(heap[games[g]].selectedCards) = 2
  /\ pmTasks[g] > 0

LockedReplies == {"Not your turn.", "Please wait, cards are being processed."}

\* the step evaluates the pair open in game g: a pair of equal symbols counts
\* one matched pair and 10 points for the player in turn and for nobody else,
\* two different cards count nothing; the pair is consumed, no evaluation of
\* it stays pending
EvaluatedOnce(g) ==
  LET o == games[g]
      u == heap[o].currentTurnPlayerId
      paired == IsPair(g, heap[o]) IN
  /\ ProcessMatch(g)
  /\ MidResolution(g)
  /\ pmTasks'[g] = 0
  /\ heap'[o].matchedPairs = heap[o].matchedPairs + (IF paired THEN 1 ELSE 0)
  /\ \A x \in SeqSet(heap[o].players) :
        heap'[o].scores[x] = heap[o].scores[x] + (IF paired /\ x = u THEN 10 ELSE 0)
  /\ \/ heap'[o].selectedCards = <<>>
     \/ heap'[o].matchedPairs >= TotalPairs

\* the score of a player of game g or its count of matched pairs changes
Counted(g) ==
  /\ games[g] # NoRef
  /\ games'[g] = games[g]
  /\ \/ heap'[games[g]].matchedPairs # heap[games[g]].matchedPairs
     \/ \E x \in SeqSet(heap'[games[g]].players) :
          heap'[games[g]].scores[x] # heap[games[g]].scores[x]

\* C11: while two cards of a turn are open and await processMatch, selectCard
\* of any player for any card is answered with 'Not your turn.' or 'Please
\* wait, cards are being processed.' and changes nothing; two open cards are
\* locked and have exactly one processMatch pending until they are evaluated;
\* and scores and matched pairs change only in the one processMatch step that
\* evaluates the open pair, by 10 points and one pair for a match.
Thm_C11_TurnCountedOnce ==
  /\ [](\A g \in GameIds :
          /\ MidResolution(g) =>
                /\ heap[games[g]].processingCards
                /\ pmTasks[g] = 1
                /\ \A u \in Users, position \in Requested :
                      SelectCardReply(g, u, position) \in LockedReplies
          /\ (games[g] # NoRef /\ Len(heap[games[g]].selectedCards) = 2) =>
                \/ pmTasks[g] = 1
                \/ heap[games[g]].matchedPairs >= TotalPairs)
  /\ [][\A g \in GameIds :
          /\ \A u \in Users, position \in Requested :
                (MidResolution(g) /\ SelectCard(g, u, position))
                   => UNCHANGED <<heap, turnTimers, pmTasks>>
          /\ Counted(g) => EvaluatedOnce(g)]_vars

\* the player in turn has opened a pair of equal cards, processMatch is
\* pending, and both players are answered that the turn is locked
Wit_C11_PairAwaitsMatch ==
  \E g \in GameIds :
    /\ MidResolution(g)
    /\ IsPair(g, heap[games[g]])
    /\ heap[games[g]].matchedPairs = 1
    /\ \A u \in SeqSet(heap[games[g]].players) :
          \E position \in Positions \ (heap[games[g]].flipped \cup heap[games[g]].matched) :
             SelectCardReply(g, u, position) \in LockedReplies

(***************************************************************************)
(* Claims about the balances (SpecWallet)                                  *)
(***************************************************************************)
\* C12: after any interleaving of entry-fee debits, credits, deposits,
\* withdrawal requests and withdrawal refunds, gameBalance and
\* withdrawableBalance of every wallet are non-negative.
Cex_C12_SubBalancesNonNegative ==
  \A u \in Users : wallet[u].gameBalance >= 0 /\ wallet[u].withdrawableBalance >= 0

\* C13: after any sequence of operations on a wallet, its balance, the total
\* that is reported, equals gameBalance + withdrawableBalance.
Cex_C13_TotalIsSum ==
  \A u \in Users : wallet[u].balance = wallet[u].gameBalance + wallet[u].withdrawableBalance

(***************************************************************************)
(* Claims about aborted formations (SpecMatch)                             *)
(***************************************************************************)
\* the games createGame began and gave up: the transaction was rolled back
AbortedGames ==
  {g \in 1..nextGame : gamesDb[g].status = "none" /\ mm.cg.game # g}

\* C14: when a debit fails while a game is formed, the formation is undone as
\* a whole: the game does not exist and no COMPLETED GAME_ENTRY row is left
\* for it on any account.
Cex_C14_AbortLeavesNoDebit == \A g \in AbortedGames : EntryRows(g) = {}

\* the step in which createGame learns that a debit failed and gives up
FormationAborts ==
  /\ mm.pc = "cg_wait"
  /\ ded[CgSlot].pc = "done"
  /\ ~DeductionOk(ded[CgSlot].result)
  /\ mm'.pc = "loop"

\* u has a row under the key of fee in the queue q
Waiting(q, u, fee) == \E i \in DOMAIN q : q[i].userId = u /\ q[i].fee = fee

\* C15: once a formation is aborted because the debit of one user failed, the
\* other users of the batch have their rows in the queue again and the user
\* whose debit failed has none under that key.
Cex_C15_FailedEntryDropped ==
  [][FormationAborts =>
       \A k \in DOMAIN mm.cg.players :
          IF mm.cg.players[k] = ded[CgSlot].userId
            THEN ~Waiting(queue', mm.cg.players[k], mm.cg.fee)
            ELSE Waiting(queue', mm.cg.players[k], mm.cg.fee)]_vars

(***************************************************************************)
(* Claims about the matchmaking passes and the bot deployment timers       *)
(***************************************************************************)
CgPcs == {"cg_delete", "cg_part", "cg_wait", "cg_commit"}

\* the rows a createGame has read or deleted in its open transaction
TakenRows == {i \in DOMAIN queue : queue[i].st # "free"}

OfTheFormation(i) ==
  /\ queue[i].fee = mm.cg.fee
  /\ \E k \in DOMAIN mm.cg.players : mm.cg.players[k] = queue[i].userId

\* C16: formations never interleave.  Whatever invokes the passes, the rows
\* taken by a formation are rows of the one createGame in progress; a
\* createGame begins only when no row is taken by another, and while it is in
\* progress every step leaves it in place or ends it.
Thm_C16_FormationsDoNotInterleave ==
  /\ [](TakenRows # {} =>
          mm.busy /\ mm.pc \in CgPcs /\ \A i \in TakenRows : OfTheFormation(i))
  /\ [][mm.pc \notin CgPcs /\ mm'.pc \in CgPcs => TakenRows = {}]_vars
  /\ [][mm.pc \in CgPcs =>
          \/ mm'.pc \in CgPcs /\ mm'.cg.game = mm.cg.game
          \/ mm'.pc = "loop" /\ mm'.cg = NoCg]_vars

\* a pass was invoked and turned away while a createGame holds rows
Wit_C16_PassTurnedAway ==
  mm.pc \in CgPcs /\ TakenRows # {} /\ mm.skips > 0

\* the users whose join armed a timeout of the key that is still armed
TimerOwners(timers, lost, fee) ==
  {timers[fee][k] : k \in DOMAIN timers[fee]} \cup {t.owner : t \in {x \in lost : x.fee = fee}}

\* C17: when a game has been formed from the rows of a key, no timer armed by
\* the join of one of its players is left armed, so that none fires a bot
\* deployment for that group.
Cex_C17_FormedGroupHasNoTimer ==
  [][mm.pc = "cg_commit" /\ mm'.pc = "loop" =>
       \A k \in DOMAIN mm.cg.players :
          mm.cg.players[k] \notin TimerOwners(botTimers', strays', mm.cg.fee)]_vars

\* C18: at most one bot deployment timer is armed for a queue key.
Cex_C18_OneTimerPerKey == \A fee \in Fees : ArmedTimers(fee) <= 1

(***************************************************************************)
(* Claims about the turn timer (SpecGame)                                  *)
(***************************************************************************)
\* C19: at most one turn timeout is armed for a game: startTurnTimer clears
\* the one that is running before it arms the next.  A timeout that fires
\* when the game is no longer in the map changes no game state and ends
\* nothing.
Thm_C19_OneTurnTimer ==
  /\ [](\A g \in GameIds : turnTimers[g] <= 1)
  /\ [][\A g \in GameIds :
          games[g] = NoRef /\ turnTimers'[g] < turnTimers[g] =>
             heap' = heap /\ games' = games /\ ends' = ends]_vars

\* a timer is running while the setTimeout chain of a startGame is about to
\* start the timer of the same game
Wit_C19_TimerAboutToBeSuperseded ==
  \E g \in GameIds : turnTimers[g] = 1 /\ stTasks[g] > 0 /\ games[g] # NoRef

(***************************************************************************)
(* Claims about the status of a game (SpecGame)                            *)
(***************************************************************************)
\* the order of the statuses of the games table
StatusRank(status) ==
  IF status = "none" THEN 0
  ELSE IF status = "WAITING" THEN 1
  ELSE IF status = "PLAYING" THEN 2
  ELSE 3

\* C20: the status of a game only moves forward along WAITING, PLAYING,
\* FINISHED | CANCELLED: no step takes a game from PLAYING back to WAITING or
\* out of FINISHED or CANCELLED.
Cex_C20_StatusMonotonic ==
  [][\A g \in GameIds :
       \/ gamesDb'[g].status = gamesDb[g].status
       \/ StatusRank(gamesDb'[g].status) > StatusRank(gamesDb[g].status)]_vars

(***************************************************************************)
(* Claims about the turns of a game (SpecGame)                             *)
(***************************************************************************)
\* the games the service plays: in the map with status playing while the row
\* of the game is PLAYING
Playing(g) ==
  games[g] # NoRef /\ heap[games[g]].status = "playing" /\ gamesDb[g].status = "PLAYING"

\* C21: while a game is PLAYING its current player is one of the players that
\* are still in the game: neither eliminated nor departed.
Cex_C21_CurrentInRotation ==
  \A g \in GameIds :
     Playing(g) => heap[games[g]].currentTurnPlayerId \in SeqSet(heap[games[g]].players)

\* endGame is running for game g
Ending(g) == \E s \in EndSlots : ends[s].pc # "idle" /\ ends[s].game = g

\* the turn timer of game g fires while the game is in the map with one card
\* revealed and none waiting for processMatch
FiresOnOpenReveal(g) ==
  games[g] # NoRef /\ Len(heap[games[g]].selectedCards) = 1 /\ TurnTimeout(g)

TimesOut(g) ==
  /\ games[g] # NoRef
  /\ heap[games[g]].currentTurnPlayerId \in SeqSet(heap[games[g]].players)
  /\ TurnTimeout(g)

\* what a timeout does to the lifelines: the player in turn has one less, or
\* has left the players with the last one; nobody else is touched
LifelineTaken(before, after) ==
  LET u == before.currentTurnPlayerId IN
  /\ IF before.lifelines[u] = 1
       THEN SeqSet(after.players) = SeqSet(before.players) \ {u}
       ELSE /\ after.players = before.players
            /\ after.lifelines[u] = before.lifelines[u] - 1
  /\ \A v \in SeqSet(before.players) \ {u} : after.lifelines[v] = before.lifelines[v]

\* C23: a turn timeout takes one lifeline from the player in turn and from
\* nobody else; the player leaves the players exactly with the last lifeline;
\* and the endGame of an elimination finishes the game with a winner.
Cex_C23_TimeoutCostsLifeline ==
  /\ [][\A g \in GameIds :
          TimesOut(g) => LifelineTaken(heap[games[g]], heap'[games[g]])]_vars
  /\ [](\A s \in EndSlots :
          ends[s].reason = "opponent_eliminated" /\ ends[s].pc \notin {"idle", "get"}
             => ends[s].winnerId \in Users)

(***************************************************************************)
(* Claims about the outcome of a game (SpecGame, SpecSettle)               *)
(***************************************************************************)
\* the row of the game is FINISHED and no endGame is running for it
Terminated(g) == gamesDb[g].status = "FINISHED" /\ ~Ending(g)

\* the game has a winner, who has been paid, and nobody has a refund
WinnerPaid(g) ==
  /\ gamesDb[g].winner \in SeqSet(gamesDb[g].participants)
  /\ \E r \in WinningRows(g) : r.userId = gamesDb[g].winner
  /\ RefundRows(g) = {}

\* the game has no winner and every participant has the entry fee back
AllRefunded(g) ==
  /\ gamesDb[g].winner = "none"
  /\ WinningRows(g) = {}
  /\ \A k \in DOMAIN gamesDb[g].participants :
        \E r \in RefundRows(g) :
           r.userId = gamesDb[g].participants[k] /\ r.amount = gamesDb[g].fee

\* C24: a paid game that has ended has exactly one outcome: a winner who was
\* paid, or no winner and a refund of every participant.
Cex_C24_OneOutcome ==
  \A g \in GameIds :
     Terminated(g) /\ gamesDb[g].fee > 0 => (WinnerPaid(g) \/ AllRefunded(g))

\* the seat of player u in the game state
SeatOf(obj, u) == CHOOSE k \in DOMAIN obj.players : obj.players[k] = u

\* u has the highest score of the game state
Leads(obj, u) == \A v \in SeqSet(obj.players) : Score(obj, v) <= Score(obj, u)

\* the match that completes game g: processMatch enters endGame with reason
\* game_completed in slot s
Completes(g, s) ==
  /\ ends[s].pc = "idle" /\ ends'[s].pc = "get"
  /\ ends'[s].game = g /\ ends'[s].reason = "game_completed"

\* the endGame of slot s determines the winner of a completed game
Decides(s) ==
  /\ ends[s].pc = "get" /\ ends'[s].pc = "update"
  /\ ends[s].reason = "game_completed"
  /\ heap[ends[s].obj].players # <<>>

Cex_C26_DisconnectKeepsSession ==
  [][\A g \in GameIds, u \in Users :
       PlayerExit(g, u, "disconnected") => ends' = ends]_vars

\* C27: a settlement that failed is taken up again until it succeeds: once a
\* paid game is FINISHED with a winner and no endGame is running for it, the
\* winner has the GAME_WINNING row of the game.
Cex_C27_WinnerCreditApplied ==
  \A g \in GameIds :
     Terminated(g) /\ gamesDb[g].fee > 0 /\ gamesDb[g].winner \in Users
        => \E r \in WinningRows(g) : r.userId = gamesDb[g].winner

(***************************************************************************)
(* Claims about startGame (SpecGame)                                       *)
(***************************************************************************)
\* startGame puts the game state of game g in the map
StateBuilt(g) == starts[g] = "get" /\ starts'[g] = "db"

\* startGame writes the row of game g and schedules its setTimeout chain
RowStarted(g) == starts[g] = "db" /\ starts'[g] = "idle"

\* the setTimeout chain of a startGame of game g ends
ChainEnds(g) == stTasks'[g] < stTasks[g]

\* C28: startGame of a WAITING game builds the game state with an untouched
\* board and the first seat in turn, writes PLAYING, and its chain arms the
\* one turn timer of the game, for the first seat when the turn has not moved.
Thm_C28_StartedGame ==
  /\ [][\A g \in GameIds :
          StateBuilt(g) =>
             /\ games'[g] # NoRef
             /\ heap'[games'[g]].status = "playing"
             /\ heap'[games'[g]].players = gamesDb[g].participants
             /\ heap'[games'[g]].currentTurnPlayerId = gamesDb[g].participants[1]
             /\ heap'[games'[g]].flipped = {} /\ heap'[games'[g]].matched = {}
             /\ heap'[games'[g]].selectedCards = <<>>]_vars
  /\ [][\A g \in GameIds :
          RowStarted(g) => gamesDb'[g].status = "PLAYING" /\ stTasks'[g] = stTasks[g] + 1]_vars
  /\ [][\A g \in GameIds :
          ChainEnds(g) /\ games[g] # NoRef =>
             /\ turnTimers'[g] = 1
             /\ ~Ending(g) => gamesDb[g].status = "PLAYING"
             /\ heap[games[g]].currentTurnIndex = 0 /\ ~Ending(g) =>
                   heap[games[g]].currentTurnPlayerId = gamesDb[g].participants[1]]_vars

\* the game just started: the row is PLAYING, the game state is the one
\* startGame built, the chain has ended and the turn timer is armed
Wit_C28_JustStarted ==
  \E g \in GameIds :
     /\ Playing(g) /\ starts[g] = "idle" /\ stTasks[g] = 0 /\ autoStart = {}
     /\ heap[games[g]] = NewGameState(g, gamesDb[g].participants)
     /\ turnTimers[g] = 1

(***************************************************************************)
(* Claims about deductGameEntry (SpecLedger)                               *)
(***************************************************************************)
\* the call of slot s returns with the given result in this step
Returns(s, result) == ded[s].pc # "done" /\ ded'[s].pc = "done" /\ ded'[s].result = result

Min(a, b) == IF a <= b THEN a ELSE b

\* C29: a debit that finds less than the amount in gameBalance and
\* withdrawableBalance together answers 'Insufficient balance' and changes
\* neither a wallet nor the transactions; a debit that goes through takes the
\* amount from gameBalance as far as it reaches and the remainder from
\* withdrawableBalance, and adds the COMPLETED GAME_ENTRY row in the same step.
Thm_C29_DebitSplit ==
  [][\A s \in AllDedSlots :
       LET u == ded[s].userId
           a == ded[s].amount
           w == wallet[u]
       IN /\ Returns(s, "insufficient") =>
               Total(w) < a /\ wallet' = wallet /\ txns' = txns
          /\ ded[s].pc \in {"wallet", "tx"} /\ ded'[s].pc = "done" /\ Total(w) < a
                /\ ~ExistingEntry(u, ded[s].gameId) => Returns(s, "insufficient")
          /\ Returns(s, "success") =>
               /\ Total(w) >= a
               /\ wallet'[u].gameBalance = w.gameBalance - Min(a, w.gameBalance)
               /\ wallet'[u].withdrawableBalance =
                     w.withdrawableBalance - (a - Min(a, w.gameBalance))
               /\ Total(wallet'[u]) = Total(w) - a
               /\ wallet'[u].balance = w.balance - a
               /\ \A v \in Users \ {u} : wallet'[v] = wallet[v]
               /\ \E r \in txns' \ txns :
                     /\ txns' = txns \cup {r}
                     /\ r.userId = u /\ r.gameId = ded[s].gameId /\ r.amount = a
                     /\ r.type = "GAME_ENTRY" /\ r.status = "COMPLETED"]_vars

\* a debit has gone through that took from both sub-balances
Wit_C29_SplitDebit ==
  \E s \in AllDedSlots :
     /\ ded[s].pc = "done" /\ ded[s].result = "success"
     /\ wallet[ded[s].userId].gameBalance = 0
     /\ wallet[ded[s].userId].withdrawableBalance % PaidFee # 0
     /\ Total(wallet[ded[s].userId]) = opening[ded[s].userId] - ded[s].amount
     /\ \E r \in txns : r.type = "GAME_ENTRY" /\ r.userId = ded[s].userId

\* the call of slot s returns in this step, having found a COMPLETED
\* GAME_ENTRY row of its user and game
ReturnsOnEntry(s) ==
  /\ ded[s].pc \in {"find", "tx"} /\ ded'[s].pc = "done"
  /\ TxRows(ded[s].userId, ded[s].gameId, "GAME_ENTRY") # {}

\* C30: a debit repeated for a user and game that have their COMPLETED entry
\* changes no wallet, adds no row, and its answer is a success to the caller.
Cex_C30_RepeatedDebitSucceeds ==
  [][\A s \in AllDedSlots :
       ReturnsOnEntry(s) =>
          wallet' = wallet /\ txns' = txns /\ DeductionOk(ded'[s].result)]_vars

(***************************************************************************)
(* Claims about creditWallet (SpecLedger)                                  *)
(***************************************************************************)
\* C31: a credit of GAME_WINNING adds the amount to withdrawableBalance, a
\* credit of a deposit, a refund or a referral bonus adds it to gameBalance;
\* the other sub-balance and the wallets of the other users stay as they are.
Thm_C31_CreditRouting ==
  [][\A r \in txns' \ txns :
       r.type \in CreditKinds =>
          LET w == wallet[r.userId]
              w2 == wallet'[r.userId]
          IN /\ w2.balance = w.balance + r.amount
             /\ IF r.type = "GAME_WINNING"
                  THEN /\ w2.withdrawableBalance = w.withdrawableBalance + r.amount
                       /\ w2.gameBalance = w.gameBalance
                  ELSE /\ w2.gameBalance = w.gameBalance + r.amount
                       /\ w2.withdrawableBalance = w.withdrawableBalance
             /\ \A v \in Users \ {r.userId} : wallet'[v] = wallet[v]]_vars

\* the account has been credited winnings and a referral bonus
Wit_C31_WinningAndBonus ==
  /\ \E r \in txns : r.type = "GAME_WINNING" /\ r.userId = "u1"
  /\ \E r \in txns : r.type = "REFERRAL_BONUS" /\ r.userId = "u1"
  /\ wallet["u1"].withdrawableBalance >= PaidFee

(***************************************************************************)
(* Claims about the money of one game (SpecGame)                           *)
(***************************************************************************)
\* nine tenths of the entry fees of the game
NineTenths(row) == (row.fee * Len(row.participants) * 9) \div 10

\* safeProcessWinnings credits the winner of the completed game of slot s
WinnerCredited(s) ==
  /\ ends[s].pc = "credit" /\ ends'[s].result = "winner_credited"
  /\ ends[s].reason = "game_completed"

\* C32: the players of a paid game that has been formed have their balance
\* less the entry fee in gameBalance; when the game ends as completed the
\* winner's withdrawableBalance grows by nine tenths of the entry fees (90 of
\* 2 x 50) and the wallet of the loser stays as it is.
Cex_C32_WinnerTakesNineTenths ==
  /\ [](\A g \in GameIds :
          gamesDb[g].status = "WAITING" =>
             \A k \in DOMAIN gamesDb[g].participants :
                wallet[gamesDb[g].participants[k]].gameBalance
                   = opening[gamesDb[g].participants[k]] - gamesDb[g].fee)
  /\ [][\A s \in EndSlots :
          WinnerCredited(s) =>
             LET row == gamesDb[ends[s].game]
                 w == ends[s].winnerId
             IN /\ wallet'[w].withdrawableBalance
                      = wallet[w].withdrawableBalance + NineTenths(row)
                /\ \A v \in Users \ {w} : wallet'[v] = wallet[v]]_vars


(***************************************************************************)
(* Claims about the backfill of a lone entry (SpecBackfill)                *)
(***************************************************************************)
\* createGame commits the game of a key
Formation(fee) == mm.pc = "cg_commit" /\ mm.cg.fee = fee /\ mm'.pc = "loop"

\* the map holds a deployment timer that the join of the user armed for the key
TimerOf(u, fee) == \E k \in DOMAIN botTimers[fee] : botTimers[fee][k] = u

\* the rows of the key are the rows of this one genuine user
WaitsAlone(u, fee) == RowsOf(u) # {} /\ RowsOfKey(fee) = RowsOf(u)

\* C33: a genuine entry that waits alone under a key of party size 2 is given
\* one bot after the deployment delay and a game of 2 participants forms; for
\* that, the deployment timer its join armed has to stay armed while it waits:
\* the formation of a game from other rows of the key leaves the timer of a
\* user who stays behind alone armed.
Cex_C33_LoneEntryKeepsTimer ==
  [][\A fee \in Fees, u \in Users :
        Formation(fee) /\ TimerOf(u, fee) /\ WaitsAlone(u, fee)'
           => TimerOf(u, fee)']_vars


(***************************************************************************)
(* Claims about deposits and withdrawals (SpecWallet)                      *)
(***************************************************************************)
\* the deposit orders that have been completed
CompletedOrders == {o \in OrderIds : orders[o].status = "COMPLETED"}

\* C34: a confirmed deposit is credited to gameBalance once, keyed by its
\* order, whether the confirmations of one order are processed one after the
\* other or at the same time: what gameBalance has gained (deposits are its
\* only credits here) never is more than the amounts of the completed orders.
Cex_C34_DepositCreditedOnce ==
  wallet[Payer].gameBalance <=
     opening[Payer] + MinDeposit * Cardinality(CompletedOrders)


\* the transaction of a createWithdrawalRequest call commits as request r
WithdrawalCreated(s, r) == pay[s].pc = "w_tx" /\ pay'[s] = NoPay /\ wreqs[r] = NoReq /\ wreqs'[r] # NoReq

\* updateWithdrawalStatus has been called for the pending request r and the
\* payout has not been made: the request is not COMPLETED after the call
PayoutFailed(r) ==
  /\ wreqs[r].status = "PENDING"
  /\ wreqs'[r].updates > wreqs[r].updates
  /\ wreqs'[r].status # "COMPLETED"

\* the sub-balances after withdrawableBalance moved by d, gameBalance as it was
WithdrawableMoved(d) ==
  /\ wallet'[Payer].withdrawableBalance = wallet[Payer].withdrawableBalance + d
  /\ wallet'[Payer].gameBalance = wallet[Payer].gameBalance

\* C35: a withdrawal request takes its amount from withdrawableBalance at once,
\* and when the payout of the request fails the same amount is given back to
\* withdrawableBalance, gameBalance being left alone by both: the failed
\* withdrawal leaves the sub-balances as they were before the request.
Cex_C35_FailedWithdrawalRestores ==
  [][/\ \A s \in PaySlots, r \in ReqIds :
           WithdrawalCreated(s, r) => WithdrawableMoved(0 - pay[s].amount)
     /\ \A r \in ReqIds :
           PayoutFailed(r) => WithdrawableMoved(wreqs[r].amount)]_vars


(***************************************************************************)
(* SpecGameFair: SpecGame with the event loop running what the server has  *)
(* scheduled: a timeout that is armed fires, a callback, a continuation    *)
(* after an await or a database write that is pending runs.  What the      *)
(* players send (selectCard, leave) is under no fairness.                  *)
(***************************************************************************)
ServerStep ==
  \/ AutoStartFireStep \/ AutoStartCheckStep
  \/ StartCreateStep \/ StartUpdateStep \/ StartTimerStep
  \/ ProcessMatchStep \/ MatchWriteStep \/ TurnTimeoutStep
  \/ EndGetStep \/ EndUpdateStep \/ EndSettleStep
  \/ SPWFindStep \/ SPWCreditStep
  \/ EndCleanupStep \/ EndReturnStep

ParticipantStep == SelectCardStep \/ PlayerLeaveStep

SpecGameFair == SpecGame /\ WF_vars(ServerStep)

(***************************************************************************)
(* Claims about the termination of a game (SpecGameFair)                   *)
(***************************************************************************)
\* C36: every game that enters PLAYING terminates, even if from some point on
\* no player does anything (the turn timer drives it to its end): unless the
\* players go on acting for ever, a game whose row is PLAYING gets to FINISHED.
Cex_C36_PlayingTerminates ==
  \/ []<><<ParticipantStep>>_vars
  \/ gamesDb[FormedGame].status = "PLAYING" ~> gamesDb[FormedGame].status = "FINISHED"


(***************************************************************************)
(* Claims about the hand-over of the turn (SpecGame)                       *)
(***************************************************************************)
\* currentTurnIndex is an index of players and the player there is the one
\* currentTurnPlayerId names
IndexDesignatesCurrent(obj) ==
  /\ obj.currentTurnIndex \in 0..(Len(obj.players) - 1)
  /\ obj.players[obj.currentTurnIndex + 1] = obj.currentTurnPlayerId

\* C37: whatever hands the turn over (a mismatch, a timeout, an elimination, a
\* player leaving), the turn passes to the next remaining player in seat order:
\* of a game that is being played, currentTurnIndex always is in bounds and
\* designates the player currentTurnPlayerId names.
Cex_C37_IndexDesignatesCurrent ==
  \A g \in GameIds :
     games[g] # NoRef /\ heap[games[g]].status = "playing"
        => IndexDesignatesCurrent(heap[games[g]])


(***************************************************************************)
(* Claims about overlapping ends of a game (SpecSettle)                    *)
(***************************************************************************)
\* C38: when the triggers of the end of a game overlap (endGame is called
\* again before the game is torn down), the end is processed once and what
\* is recorded agrees with what was settled: the winner of the row is the
\* player who got the GAME_WINNING credit, and a game whose players were
\* refunded has no winner.
Cex_C38_RecordedWinnerIsSettled ==
  \A g \in GameIds :
     Terminated(g) =>
        /\ \A r \in WinningRows(g) : gamesDb[g].winner = r.userId
        /\ RefundRows(g) # {} => gamesDb[g].winner = "none"


(***************************************************************************)
(* Claims about leaving the queue (SpecMatch)                              *)
(***************************************************************************)
\* the user has no row in the queue and no joinQueue call under way: the user
\* has left, or was matched, and has not joined again
OutOfQueue(u) == RowsOf(u) = {} /\ \A s \in JoinSlots : joins[s].userId # u

\* C39: once leaveQueue has returned, the user is neither placed in a game nor
\* debited an entry fee unless the user joins again, even when a matching pass
\* is forming a game from the rows of the key at that time: no step makes a
\* participant of a user who is out of the queue or takes money from the
\* wallet of such a user.
Cex_C39_LeaverStaysOut ==
  [][\A u \in Users :
        OutOfQueue(u) =>
           /\ \A g \in GameIds :
                 gamesDb[g].status = "none" => u \notin SeqSet(gamesDb'[g].participants)
           /\ wallet'[u].balance >= wallet[u].balance]_vars


(***************************************************************************)
(* Claims about starting a game twice (SpecSettle)                         *)
(***************************************************************************)
\* startGame goes on for game g: getGameById has answered, or the PLAYING write lands
StartProceeds(g) == starts[g] \in {"get", "db"} /\ starts'[g] # starts[g]

\* the game state the map holds for g
StateOf(g) == IF games[g] = NoRef THEN NoObj ELSE heap[games[g]]

\* C40: a start takes effect once: a startGame (the auto-start, or the
\* START_MEMORY_GAME of a client) for a game that is PLAYING or FINISHED
\* already leaves the game state (board, scores, lifelines, current player)
\* and the status of the game as they are.
Cex_C40_StartOnce ==
  [][\A g \in GameIds :
        StartProceeds(g) /\ gamesDb[g].status \in {"PLAYING", "FINISHED"}
           => StateOf(g)' = StateOf(g) /\ gamesDb'[g] = gamesDb[g]]_vars

====
